---- MODULE Spec2Model ----
\* Checkpoint and recovery protocol of the embedded graph database
\* (storage/checkpointer.cpp): shadow-page staging, header replacement,
\* WAL checkpoint marker, free-space bootstrap, recovery on reopen.
EXTENDS Integers, Sequences, FiniteSets, TLC

\* ---------------------------------------------------------------- bounds
MaxPages == 12          \* capacity of the data file, in pages
MaxOps == 2
MaxCrashes == 1         \* crash-and-reopen events in one behaviour
MaxFailures == 1        \* checkpoint steps that throw in one behaviour
NumTables == 2          \* tables the catalog can hold
MaxWalSize == 3         \* sizes tried by canAutoCheckpoint
DefaultThreshold == 1   \* dbConfig.checkpointThreshold of the protocol runs
MaxIndexes == 2         \* unloaded HNSW indexes of the catalog
MaxThreads == 2         \* dbConfig.maxNumThreads

\* ------------------------------------------------------------- constants
KUZU_PAGE_SIZE == 4              \* serialized tokens one page holds
INVALID_PAGE_IDX == 2147483647   \* sentinel start index of an absent range
PAD == 0 - 1                     \* a token position never written

Tables == 1..NumTables
PageIdx == 0..(MaxPages - 1)
DB_HEADER_PAGE_IDX == 0

\* ------------------------------------------------------------ PageRange
PageRange(s, n) == [startPageIdx |-> s, numPages |-> n]
INVALID_RANGE == PageRange(INVALID_PAGE_IDX, 0)
RangePages(r) ==
    IF r.startPageIdx = INVALID_PAGE_IDX THEN {}
    ELSE r.startPageIdx .. (r.startPageIdx + r.numPages - 1)
PagesOf(entries) == UNION {RangePages(r) : r \in entries}

MinEntry(S) ==
    CHOOSE r \in S : \A q \in S :
        \/ r.startPageIdx < q.startPageIdx
        \/ (r.startPageIdx = q.startPageIdx /\ r.numPages <= q.numPages)

RECURSIVE SortedEntries(_)
SortedEntries(S) ==
    IF S = {} THEN <<>>
    ELSE LET r == MinEntry(S) IN <<r>> \o SortedEntries(S \ {r})

RECURSIVE SortedTables(_)
SortedTables(S) ==
    IF S = {} THEN <<>>
    ELSE LET t == CHOOSE x \in S : \A y \in S : x <= y
         IN <<t>> \o SortedTables(S \ {t})

\* number of pages an in-memory writer holding n tokens flushes
getNumPagesToFlush(n) == (n + KUZU_PAGE_SIZE - 1) \div KUZU_PAGE_SIZE

\* the i-th page (1-based) of a token sequence
PageChunk(toks, i) ==
    SubSeq(toks, (i - 1) * KUZU_PAGE_SIZE + 1,
           IF i * KUZU_PAGE_SIZE < Len(toks) THEN i * KUZU_PAGE_SIZE ELSE Len(toks))

\* ------------------------------------------------- page allocator (FSM)
\* pm = [free, pending, version, numPages]: free entries, entries freed
\* since the last checkpoint (not reusable), change counter, tracked pages
FitEntries(pm, n) == {r \in pm.free : r.numPages >= n}

allocatePageRange(pm, n) ==
    IF FitEntries(pm, n) # {}
    THEN LET r == MinEntry(FitEntries(pm, n))
             rest == IF r.numPages > n
                     THEN {PageRange(r.startPageIdx + n, r.numPages - n)}
                     ELSE {}
         IN [pm |-> [pm EXCEPT !.free = (pm.free \ {r}) \cup rest,
                               !.version = 1],
             range |-> PageRange(r.startPageIdx, n)]
    ELSE [pm |-> [pm EXCEPT !.numPages = pm.numPages + n, !.version = 1],
          range |-> PageRange(pm.numPages, n)]

\* variant: a freed range is reusable at once
freePageRange_Immediate(pm, r) ==
    [pm EXCEPT !.free = pm.free \cup {r}, !.version = 1]

\* a freed range is recorded and not reusable before the checkpoint ends
freePageRange(pm, r) ==
    [pm EXCEPT !.pending = pm.pending \cup {r}, !.version = 1]

getNumEntries(pm) == Cardinality(pm.free \cup pm.pending)

RECURSIVE FlattenEntries(_)
FlattenEntries(es) ==
    IF es = <<>> THEN <<>>
    ELSE <<es[1].startPageIdx, es[1].numPages>> \o FlattenEntries(Tail(es))

\* PageManager::serialize: tracked page count, entry count, every entry,
\* the entries freed during this checkpoint included
serializePageManager(pm) ==
    <<pm.numPages, getNumEntries(pm)>>
        \o FlattenEntries(SortedEntries(pm.free \cup pm.pending))

estimatePagesNeededForSerialize(pm) ==
    getNumPagesToFlush(2 + 2 * getNumEntries(pm))

\* adjacent free ranges are merged when the checkpoint is finalized
RECURSIVE MergeSorted(_)
MergeSorted(es) ==
    IF Len(es) <= 1 THEN es
    ELSE IF es[1].startPageIdx + es[1].numPages >= es[2].startPageIdx
         THEN LET hi1 == es[1].startPageIdx + es[1].numPages
                  hi2 == es[2].startPageIdx + es[2].numPages
                  hi == IF hi1 > hi2 THEN hi1 ELSE hi2
              IN MergeSorted(<<PageRange(es[1].startPageIdx, hi - es[1].startPageIdx)>>
                                \o SubSeq(es, 3, Len(es)))
         ELSE <<es[1]>> \o MergeSorted(Tail(es))

SeqRange(s) == {s[i] : i \in 1..Len(s)}

finalizeCheckpoint(pm) ==
    [pm EXCEPT !.free = SeqRange(MergeSorted(SortedEntries(pm.free \cup pm.pending))),
               !.pending = {}]

rollbackCheckpoint(pm) == [pm EXCEPT !.pending = {}]

resetVersion(pm) == [pm EXCEPT !.version = 0]

\* ------------------------------------------------------- serialization
DatabaseHeader(c, m) == [catalogPageRange |-> c, metadataPageRange |-> m]
EmptyHeader == DatabaseHeader(INVALID_RANGE, INVALID_RANGE)

serializeHeader(h) ==
    <<h.catalogPageRange.startPageIdx, h.catalogPageRange.numPages,
      h.metadataPageRange.startPageIdx, h.metadataPageRange.numPages>>

catalogSerialize(cat) == <<Cardinality(cat)>> \o SortedTables(cat)

RECURSIVE FlattenTables(_, _)
FlattenTables(ts, tbls) ==
    IF ts = <<>> THEN <<>>
    ELSE <<ts[1], tbls[ts[1]].page>> \o FlattenTables(Tail(ts), tbls)

\* StorageManager::serialize(catalog, ser): one entry per table of the catalog
storageSerialize(cat, tbls) ==
    <<Cardinality(cat)>> \o FlattenTables(SortedTables(cat), tbls)

\* a table's data page carries a tag no catalog or metadata page starts with
DataTag == 100
dataPage(t, val) == <<DataTag + t, val>>

EmptyTable == [page |-> INVALID_PAGE_IDX, val |-> 0, dirty |-> FALSE]
EmptyFile == [p \in PageIdx |-> <<>>]

\* InMemFileWriter::flush(range, fh, shadowFile): the pages the writer
\* holds go to the shadow versions of the first pages of the range
flushWriter(sm, range, toks) ==
    [p \in PageIdx |->
        IF /\ p >= range.startPageIdx
           /\ p < range.startPageIdx + getNumPagesToFlush(Len(toks))
        THEN PageChunk(toks, p - range.startPageIdx + 1)
        ELSE sm[p]]

Staged(sm) == {p \in PageIdx : sm[p] # <<>>}

\* ----------------------------------------------------- deserialization
Padded(pg) == pg \o [i \in 1..(KUZU_PAGE_SIZE - Len(pg)) |-> PAD]

\* BufferedFileReader positioned at the first byte of page start
RECURSIVE Stream(_, _)
Stream(d, start) ==
    IF start \notin PageIdx THEN <<>>
    ELSE Padded(d[start]) \o Stream(d, start + 1)

FileNumPages(d) ==
    IF Staged(d) = {} THEN 0
    ELSE 1 + (CHOOSE p \in Staged(d) : \A q \in Staged(d) : q <= p)

deserializeHeader(d) ==
    IF Len(d[DB_HEADER_PAGE_IDX]) < 4 THEN EmptyHeader
    ELSE LET pg == d[DB_HEADER_PAGE_IDX]
         IN DatabaseHeader(PageRange(pg[1], pg[2]), PageRange(pg[3], pg[4]))

CatalogOk(s) ==
    /\ Len(s) >= 1
    /\ s[1] \in 0..NumTables
    /\ Len(s) >= 1 + s[1]
    /\ \A i \in 1..s[1] : s[1 + i] \in Tables
catalogDeserialize(s) == {s[1 + i] : i \in 1..s[1]}

StorageOk(s, d) ==
    /\ Len(s) >= 1
    /\ s[1] \in 0..NumTables
    /\ Len(s) >= 1 + 2 * s[1]
    /\ \A i \in 1..s[1] :
          /\ s[2 * i] \in Tables
          /\ \/ s[2 * i + 1] = INVALID_PAGE_IDX
             \/ /\ s[2 * i + 1] \in PageIdx
                /\ Len(d[s[2 * i + 1]]) = 2
                /\ d[s[2 * i + 1]][1] = DataTag + s[2 * i]
storageDeserialize(s, d) ==
    LET entryOf(t) == CHOOSE i \in 1..s[1] : s[2 * i] = t
    IN [t \in Tables |->
          IF \E i \in 1..s[1] : s[2 * i] = t
          THEN LET pgIdx == s[2 * entryOf(t) + 1]
               IN [page |-> pgIdx,
                   val |-> IF pgIdx = INVALID_PAGE_IDX THEN 0 ELSE d[pgIdx][2],
                   dirty |-> FALSE]
          ELSE EmptyTable]
StorageLen(s) == 1 + 2 * s[1]

PageManagerOk(s) ==
    /\ Len(s) >= 2
    /\ s[1] >= 0 /\ s[2] >= 0
    /\ Len(s) >= 2 + 2 * s[2]
    /\ \A i \in 1..(2 * s[2]) : s[2 + i] >= 0

\* variant: deserializing the allocator takes a page for itself
pageManagerDeserialize_Allocating(s, filePages) ==
    allocatePageRange(
        [free |-> {PageRange(s[2 * i + 1], s[2 * i + 2]) : i \in 1..s[2]},
         pending |-> {},
         version |-> 0,
         numPages |-> IF s[1] > filePages THEN s[1] ELSE filePages], 1).pm

pageManagerDeserialize(s, filePages) ==
    [free |-> {PageRange(s[2 * i + 1], s[2 * i + 2]) : i \in 1..s[2]},
     pending |-> {},
     version |-> 0,
     numPages |-> IF s[1] > filePages THEN s[1] ELSE filePages]

\* which artifacts a readCheckpoint call deserialized
NoRead == [header |-> FALSE, catalog |-> FALSE, metadata |-> FALSE, pageManager |-> FALSE]
HeaderRead == [NoRead EXCEPT !.header = TRUE]
AllRead == [header |-> TRUE, catalog |-> TRUE, metadata |-> TRUE, pageManager |-> TRUE]

\* the in-memory state after StorageManager construction on an empty file:
\* page 0 is reserved for the header
FreshState(filePages) ==
    [header |-> EmptyHeader, catalog |-> {}, catalogVersion |-> 0,
     tables |-> [t \in Tables |-> EmptyTable],
     pm |-> [free |-> {}, pending |-> {}, version |-> 0,
             numPages |-> IF filePages = 0 THEN 1 ELSE filePages],
     corrupt |-> FALSE,
     read |-> NoRead]

\* Checkpointer::readCheckpoint on the data file d
readCheckpoint(d) ==
    LET filePages == FileNumPages(d)
        h == deserializeHeader(d)
        cs == Stream(d, h.catalogPageRange.startPageIdx)
        ms == Stream(d, h.metadataPageRange.startPageIdx)
    IN IF filePages = 0 THEN FreshState(0)
       ELSE IF h.catalogPageRange.startPageIdx = INVALID_PAGE_IDX
       THEN [FreshState(filePages) EXCEPT !.header = h, !.read = HeaderRead]
       ELSE IF ~(CatalogOk(cs) /\ StorageOk(ms, d))
       THEN [FreshState(filePages) EXCEPT !.header = h, !.corrupt = TRUE,
                                          !.read = HeaderRead]
       ELSE LET ps == SubSeq(ms, StorageLen(ms) + 1, Len(ms))
            IN IF ~PageManagerOk(ps)
               THEN [FreshState(filePages) EXCEPT !.header = h, !.corrupt = TRUE,
                                                  !.read = HeaderRead]
               ELSE [header |-> h,
                     catalog |-> catalogDeserialize(cs),
                     catalogVersion |-> 0,
                     tables |-> storageDeserialize(ms, d),
                     pm |-> pageManagerDeserialize(ps, filePages),
                     corrupt |-> FALSE,
                     read |-> AllRead]

\* variant: the header is read whatever the file holds
readCheckpointOnOpen_AlwaysRead(inMemory, d) ==
    IF FileNumPages(d) > 0 THEN readCheckpoint(d)
    ELSE [FreshState(0) EXCEPT !.read = HeaderRead]

\* Checkpointer::readCheckpoint(): the overload runs for a durable
\* database whose data file has pages
readCheckpointOnOpen(inMemory, d) ==
    IF ~inMemory /\ FileNumPages(d) > 0 THEN readCheckpoint(d)
    ELSE FreshState(0)

\* ------------------------------------------------------------------ WAL
CheckpointRecord == [op |-> "checkpoint", t |-> 0]
CreateRecord(t) == [op |-> "create", t |-> t]
UpdateRecord(t) == [op |-> "update", t |-> t]

HasCheckpointRecord(w) == Len(w) > 0 /\ w[Len(w)] = CheckpointRecord

\* the effect of one committed transaction on the in-memory state
applyRecord(st, rec) ==
    IF rec.op = "create"
    THEN [st EXCEPT !.catalog = st.catalog \cup {rec.t}, !.catalogVersion = 1]
    ELSE IF rec.op = "update"
    THEN [st EXCEPT !.tables[rec.t].val = st.tables[rec.t].val + 1,
                    !.tables[rec.t].dirty = TRUE]
    ELSE st

RECURSIVE replay(_, _)
replay(st, w) ==
    IF w = <<>> THEN st ELSE replay(applyRecord(st, Head(w)), Tail(w))

applyShadowPage(d, sd, p) == [d EXCEPT ![p] = sd[p]]

\* ShadowFile::replayShadowPageRecords: every flushed shadow page is copied
replayShadowPages(d, sd) == [p \in PageIdx |-> IF sd[p] # <<>> THEN sd[p] ELSE d[p]]

\* StorageManager::recover: a WAL ending in the checkpoint record completes
\* the checkpoint from the shadow file; any other WAL is replayed on top of
\* the last checkpoint and the shadow file is discarded
recoverDisk(d, sd, w) == IF HasCheckpointRecord(w) THEN replayShadowPages(d, sd) ELSE d
recoverWal(w) == IF HasCheckpointRecord(w) THEN <<>> ELSE w
recover(d, sd, w) ==
    replay(readCheckpoint(recoverDisk(d, sd, w)), recoverWal(w))

\* the logical content of a state: header, catalog, table contents, the
\* page of each table and the allocator's free pages
LogicalImage(st, freePages) ==
    [header |-> st.header,
     catalog |-> st.catalog,
     vals |-> [t \in Tables |-> IF t \in st.catalog THEN st.tables[t].val ELSE 0 - 1],
     pages |-> [t \in Tables |-> IF t \in st.catalog THEN st.tables[t].page
                                 ELSE INVALID_PAGE_IDX],
     free |-> freePages,
     corrupt |-> st.corrupt]

\* ------------------------------------------------------------- state
VARIABLES
    isInMemory, autoCheckpoint,                 \* DBConfig
    header, catalog, catalogVersion, tables, pm,\* in-memory database state
    shadowMem,                                  \* shadow pages staged in memory
    disk, wal, shadowDisk,                      \* durable files
    pc, databaseHeader, hasStorageChanges, progress, \* writeCheckpoint position and locals
    preImage, startSnap, detected, ckptLog, bootstrap, quiet, lastOutcome, \* history
    nops, ncrashes, nfailures,                  \* run bounds
    acIn, acResult, acCalled,                   \* canAutoCheckpoint call
    readLog,                                    \* what the last readCheckpoint deserialized
    dbIn, dbPc, dbOut,                          \* Database open and close
    bm,                                         \* buffer manager: eviction queue, evicted frames
    bgPc, backgroundThreadStartMutex,           \* vector-index background loader
    vectorIndexLoadCancelled, bgIn, bgLog,
    hnswPc, hnswIn, nextIndexToProcess, workers, \* initHNSWEntries and its worker threads
    claims, errors, hnswLog

cfgVars == <<isInMemory, autoCheckpoint>>
memVars == <<header, catalog, catalogVersion, tables, pm>>
durVars == <<disk, wal, shadowDisk>>
locVars == <<databaseHeader, hasStorageChanges, progress>>
histVars == <<preImage, startSnap, detected, ckptLog, bootstrap>>
cntVars == <<nops, ncrashes, nfailures>>
acVars == <<acIn, acResult, acCalled>>
openVars == <<readLog>>
dbVars == <<dbIn, dbPc, dbOut>>
bmVars == <<bm>>
hnswVars == <<hnswPc, hnswIn, nextIndexToProcess, workers, claims, errors, hnswLog>>
bgVars == <<bgPc, backgroundThreadStartMutex, vectorIndexLoadCancelled, bgIn, bgLog>>
vars == <<cfgVars, memVars, shadowMem, durVars, pc, locVars, histVars, quiet,
          lastOutcome, cntVars, acVars, openVars, dbVars, bmVars, bgVars, hnswVars>>

\* ------------------------------------------------- observation helpers
View(p) == [free |-> PagesOf(p.free),
            used |-> (0..(p.numPages - 1)) \ PagesOf(p.free)]

MemState == [header |-> header, catalog |-> catalog, catalogVersion |-> catalogVersion,
             tables |-> tables, pm |-> pm, corrupt |-> FALSE, read |-> readLog]
MemImage == LogicalImage(MemState, PagesOf(pm.free \cup pm.pending))
RecoveredState == recover(disk, shadowDisk, wal)
RecoveredImage == LogicalImage(RecoveredState, PagesOf(RecoveredState.pm.free))

\* pages the allocator counts as used, and those of them that neither the
\* header page, the header's ranges nor a table refers to
UsedPages(p) == (0..(p.numPages - 1)) \ (PagesOf(p.free) \cup PagesOf(p.pending))
LivePages ==
    {DB_HEADER_PAGE_IDX} \cup RangePages(header.catalogPageRange)
        \cup RangePages(header.metadataPageRange)
        \cup {tables[t].page : t \in {x \in catalog : tables[x].page # INVALID_PAGE_IDX}}
Unreferenced == UsedPages(pm) \ LivePages

Snap == [pm |-> pm, header |-> header, shadowMem |-> shadowMem, wal |-> wal,
         disk |-> disk, shadowDisk |-> shadowDisk]

EmptyLog == [allocated |-> {}, freed |-> {}, hasView |-> FALSE,
             viewBeforeFree |-> View([free |-> {}, numPages |-> 0]),
             allocAfterFree |-> {}, preFree |-> {}, preUnreferenced |-> {}]
LogAlloc(log, r) ==
    [log EXCEPT !.allocated = log.allocated \cup RangePages(r),
                !.allocAfterFree = IF log.hasView
                                   THEN log.allocAfterFree \cup RangePages(r)
                                   ELSE log.allocAfterFree]
LogFree(log, pmBefore, r) ==
    [log EXCEPT !.freed = log.freed \cup RangePages(r),
                !.hasView = TRUE,
                !.viewBeforeFree = IF log.hasView THEN log.viewBeforeFree
                                   ELSE View(pmBefore)]
NoBootstrap == [metaPages |-> 0, estimate |-> 0, needed |-> 0,
                allocated |-> 0, written |-> 0, range |-> INVALID_RANGE,
                estimatedOn |-> [free |-> {}, pending |-> {}, version |-> 0,
                                 numPages |-> 0]]
NoDetect == [storage |-> FALSE, catalogChanged |-> FALSE, pmChanged |-> FALSE,
             catalogValid |-> FALSE, metadataValid |-> FALSE]

ACInputs == [inMemory : BOOLEAN, autoCheckpoint : BOOLEAN, isRecovery : BOOLEAN,
             localWALSize : 0..MaxWalSize, walFileSize : 0..MaxWalSize,
             checkpointThreshold : 0..MaxWalSize]
DbInputs ==
    [path : {"inMemory", "missing", "file", "directory"},
     readOnly : BOOLEAN,
     forceCheckpointOnClose : BOOLEAN,
     recoverThrows : BOOLEAN,
     checkpointThrows : {"none", "Exception", "std::exception", "unknown"}]
NoDbIn == [path |-> "inMemory", readOnly |-> FALSE, forceCheckpointOnClose |-> FALSE,
           recoverThrows |-> FALSE, checkpointThrows |-> "none"]
NoDbOut == [state |-> "none", handle |-> "unset", thrown |-> "none", touched |-> FALSE,
            recovered |-> FALSE, checkpointAttempted |-> FALSE, escaped |-> FALSE,
            isDatabaseClosed |-> FALSE]

BgInputs == [loadErrors : BOOLEAN, commitThrows : BOOLEAN, rollbackThrows : BOOLEAN]
NoBgIn == [loadErrors |-> FALSE, commitThrows |-> FALSE, rollbackThrows |-> FALSE]
NoBgLog == [contextCreated |-> FALSE, createdAfterClose |-> FALSE, txn |-> "none",
            cancelSeen |-> FALSE, committed |-> FALSE, notified |-> "none"]

WorkerIds == 1..MaxThreads
HnswInputs == [numIndexes : 0..MaxIndexes, maxNumThreads : 1..MaxThreads,
               failing : SUBSET (0..(MaxIndexes - 1))]
NoHnswIn == [numIndexes |-> 0, maxNumThreads |-> 1, failing |-> {}]
NoWorker == [pc |-> "unborn", idx |-> 0]
NoHnswLog == [cancelledAtCheck |-> FALSE, exceptions |-> 0, loaded |-> {},
              collected |-> FALSE]

NoAC == [inMemory |-> FALSE, autoCheckpoint |-> FALSE, isRecovery |-> FALSE,
         localWALSize |-> 0, walFileSize |-> 0, checkpointThreshold |-> 0]

\* ------------------------------------------------------ buffer manager
\* bm = [queue, evicted]: the number of eviction candidates queued for each
\* page, and the pages whose frame is in the evicted state
NoBuffer == [queue |-> [p \in PageIdx |-> 0], evicted |-> PageIdx]

\* a page written through the buffer manager gets a frame and is appended
\* to the eviction queue
bmTouch(b, pages) ==
    [queue |-> [p \in PageIdx |-> IF p \in pages THEN b.queue[p] + 1 ELSE b.queue[p]],
     evicted |-> b.evicted \ pages]

\* StorageManager::finalizeCheckpoint: the frames of the pages freed during
\* the checkpoint are evicted; their queue entries stay
evictFreedPages(b, pages) == [b EXCEPT !.evicted = b.evicted \cup pages]

\* BufferManager::removeEvictedCandidates: queue entries of evicted frames
\* are dropped
removeEvictedCandidates(b) ==
    [b EXCEPT !.queue = [p \in PageIdx |-> IF p \in b.evicted THEN 0 ELSE b.queue[p]]]

\* variant: the evicted candidates are removed before the freed pages are
\* evicted
FinalizeOrder_RemoveFirst == <<"removeEvictedCandidates", "finalizeCheckpoint">>

\* writeCheckpoint: storageManager->finalizeCheckpoint(), then
\* bufferManager->removeEvictedCandidates()
FinalizeOrder == <<"finalizeCheckpoint", "removeEvictedCandidates">>
finalizeBuffer(b, freedPages) ==
    IF FinalizeOrder[1] = "finalizeCheckpoint"
    THEN removeEvictedCandidates(evictFreedPages(b, freedPages))
    ELSE evictFreedPages(removeEvictedCandidates(b), freedPages)

\* ------------------------------------------------- Checkpointer (pure)
\* variant: the threshold comparison includes the boundary
canAutoCheckpoint_GreaterEqual(inMemory, autoCkpt, isRecovery, localWALSize, walFileSize, threshold) ==
    IF inMemory THEN FALSE
    ELSE IF ~autoCkpt THEN FALSE
    ELSE IF isRecovery THEN FALSE
    ELSE localWALSize + walFileSize >= threshold

\* variant: the recovery early return is missing
canAutoCheckpoint_NoRecoveryCheck(inMemory, autoCkpt, isRecovery, localWALSize, walFileSize, threshold) ==
    IF inMemory THEN FALSE
    ELSE IF ~autoCkpt THEN FALSE
    ELSE localWALSize + walFileSize > threshold

\* Checkpointer::canAutoCheckpoint
canAutoCheckpoint(inMemory, autoCkpt, isRecovery, localWALSize, walFileSize, threshold) ==
    IF inMemory THEN FALSE
    ELSE IF ~autoCkpt THEN FALSE
    ELSE IF isRecovery THEN FALSE
    ELSE localWALSize + walFileSize > threshold

\* writeCheckpoint: change detection
hasCatalogChanges(h, catalogChanged) ==
    h.catalogPageRange.startPageIdx = INVALID_PAGE_IDX \/ catalogChanged
hasMetadataChanges(h, storageChanges, catalogChanged, pmChanged) ==
    \/ h.metadataPageRange.startPageIdx = INVALID_PAGE_IDX
    \/ storageChanges \/ catalogChanged \/ pmChanged

\* variant: the skip test ignores the metadata conditions
skipCheckpoint_IgnoreMetadata(h, storageChanges, catalogChanged, pmChanged) ==
    /\ ~storageChanges
    /\ ~hasCatalogChanges(h, catalogChanged)

skipCheckpoint(h, storageChanges, catalogChanged, pmChanged) ==
    /\ ~storageChanges
    /\ ~hasCatalogChanges(h, catalogChanged)
    /\ ~hasMetadataChanges(h, storageChanges, catalogChanged, pmChanged)

\* serializeCatalogAndMetadata: the two conditions
shouldSerializeCatalog(h, catalogChanged) ==
    h.catalogPageRange.startPageIdx = INVALID_PAGE_IDX \/ catalogChanged

\* variant: the metadata is written only for storage changes
shouldSerializeMetadata_OnlyStorageChanges(h, storageChanges, catalogChanged, pmChanged) == storageChanges

\* variant: a change of the page allocator alone does not count
shouldSerializeMetadata_IgnorePageManager(h, storageChanges, catalogChanged, pmChanged) ==
    \/ h.metadataPageRange.startPageIdx = INVALID_PAGE_IDX
    \/ storageChanges \/ catalogChanged

shouldSerializeMetadata(h, storageChanges, catalogChanged, pmChanged) ==
    \/ h.metadataPageRange.startPageIdx = INVALID_PAGE_IDX
    \/ storageChanges \/ catalogChanged \/ pmChanged

\* variant: the range is sized for the metadata alone
metadataPagesToAllocate_NoEstimate(metaPages, pagesForPageManager) == metaPages

\* serializeMetadata: size of the range allocated for metadata + allocator
metadataPagesToAllocate(metaPages, pagesForPageManager) ==
    metaPages + pagesForPageManager

\* DatabaseHeader::updateCatalogPageRange / freeMetadataPageRange
freeRangeIfValid(p, r) ==
    IF r.startPageIdx # INVALID_PAGE_IDX THEN freePageRange(p, r) ELSE p

\* variant: the in-memory test is inverted
rollbackEffect_Inverted(inMemory, p) ==
    IF inMemory THEN rollbackCheckpoint(p) ELSE p

\* Checkpointer::rollback on the allocator
rollbackEffect(inMemory, p) ==
    IF inMemory THEN p ELSE rollbackCheckpoint(p)

\* variants: the checkpoint record is logged before the shadow file is
\* flushed; the shadow file is cleared before its pages are applied
LogAndApplyOrder_LogFirst ==
    <<"logAndFlushCheckpoint", "flushAll", "applyShadowPages", "walClear", "shadowClear">>
LogAndApplyOrder_ClearBeforeApply ==
    <<"flushAll", "logAndFlushCheckpoint", "shadowClear", "applyShadowPages", "walClear">>

\* variant: the WAL is cleared before the shadow pages are applied
LogAndApplyOrder_WalClearFirst ==
    <<"flushAll", "logAndFlushCheckpoint", "walClear", "applyShadowPages", "shadowClear">>

\* logCheckpointAndApplyShadowPages: the order of its calls
LogAndApplyOrder ==
    <<"flushAll", "logAndFlushCheckpoint", "applyShadowPages", "walClear", "shadowClear">>
StepAfter(step) ==
    LET i == CHOOSE k \in 1..Len(LogAndApplyOrder) : LogAndApplyOrder[k] = step
    IN IF i = Len(LogAndApplyOrder) THEN "finalizeCheckpoint"
       ELSE LogAndApplyOrder[i + 1]

\* variant: the trailing page of the previous metadata range stays allocated
freeMetadataPageRange_KeepLastPage(p, r) == IF r.startPageIdx # INVALID_PAGE_IDX /\ r.numPages > 1 THEN freePageRange(p, PageRange(r.startPageIdx, r.numPages - 1)) ELSE p

\* DatabaseHeader::freeMetadataPageRange: the whole previous range
freeMetadataPageRange(p, r) == freeRangeIfValid(p, r)

\* variant: wal->clear() leaves the records in place
walAfterClear_KeepRecords(w) == w

\* logCheckpointAndApplyShadowPages: wal->clear()
walAfterClear(w) == <<>>

\* variant: the in-memory early return is missing
checkpointEntry_NoInMemoryReturn(inMemory) == "checkpointStorage"

\* writeCheckpoint: the in-memory early return
checkpointEntry(inMemory) == IF inMemory THEN "idle" ELSE "checkpointStorage"

\* variant: the header is staged before the catalog and the metadata
WriteCheckpointOrder_HeaderFirst ==
    <<"writeDatabaseHeader", "serializeCatalog", "serializeMetadata">>

\* writeCheckpoint after change detection: serializeCatalogAndMetadata
\* (catalog, then metadata), writeDatabaseHeader, then
\* logCheckpointAndApplyShadowPages
WriteCheckpointOrder ==
    <<"serializeCatalog", "serializeMetadata", "writeDatabaseHeader">>
StepAfterSerialize(step) ==
    LET i == CHOOSE k \in 1..Len(WriteCheckpointOrder) : WriteCheckpointOrder[k] = step
    IN IF i = Len(WriteCheckpointOrder) THEN LogAndApplyOrder[1]
       ELSE WriteCheckpointOrder[i + 1]

\* variant: the previous metadata range is freed after the new metadata
\* and the allocator have been serialized
SerializeMetadataOrder_FreeAfter == <<"serializeMetadata", "freeMetadataPageRange">>

\* serializeCatalogAndMetadata: the previous metadata range is freed, then
\* serializeMetadata runs
SerializeMetadataOrder == <<"freeMetadataPageRange", "serializeMetadata">>
freesMetadataFirst == SerializeMetadataOrder[1] = "freeMetadataPageRange"

\* variant: the allocator is serialized as it was before the allocation
pageManagerToSerialize_BeforeAllocate(pmBeforeAllocate, pmAfterAllocate) ==
    pmBeforeAllocate

\* serializeMetadata: the allocator serializes itself after the allocation
pageManagerToSerialize(pmBeforeAllocate, pmAfterAllocate) == pmAfterAllocate

\* variant: the range returned covers the written pages only
serializeMetadataReturn_WrittenOnly(allocatedPages, pagesFlushed) ==
    PageRange(allocatedPages.startPageIdx, pagesFlushed)

\* serializeMetadata: return allocatedPages
serializeMetadataReturn(allocatedPages, pagesFlushed) == allocatedPages

\* variant: the catalog version is not reset
resetVersions_KeepCatalog(catVersion, p) ==
    [catalogVersion |-> catVersion, pm |-> resetVersion(p)]

\* writeCheckpoint: catalog and page manager resetVersion()
resetVersions(catVersion, p) == [catalogVersion |-> 0, pm |-> resetVersion(p)]

\* variant: the versions are reset as soon as the header is staged
ResetVersionAfter_WriteDatabaseHeader == "writeDatabaseHeader"

\* writeCheckpoint: the versions are reset after logCheckpointAndApplyShadowPages,
\* finalizeCheckpoint and removeEvictedCandidates have returned
ResetVersionAfter == "finalizeCheckpoint"
versionsAfterStep(step, catVersion, p) ==
    IF step = ResetVersionAfter THEN resetVersions(catVersion, p)
    ELSE [catalogVersion |-> catVersion, pm |-> p]

\* variant: the header page is written in place
writeHeaderPage_InPlace(d, sm, toks) ==
    [disk |-> [d EXCEPT ![DB_HEADER_PAGE_IDX] = toks], shadow |-> sm]

\* variant: the header page is written to the shadow copy and in place
writeHeaderPage_Both(d, sm, toks) ==
    [disk |-> [d EXCEPT ![DB_HEADER_PAGE_IDX] = toks],
     shadow |-> [sm EXCEPT ![DB_HEADER_PAGE_IDX] = toks]]

\* writeDatabaseHeader: where the serialized header page goes
writeHeaderPage(d, sm, toks) ==
    [disk |-> d, shadow |-> [sm EXCEPT ![DB_HEADER_PAGE_IDX] = toks]]

\* StorageManager::checkpoint: every dirty table is written to a fresh page
\* and its previous page is freed
RECURSIVE checkpointTables(_, _)
checkpointTables(ts, s) ==
    IF ts = <<>> THEN s
    ELSE LET t == Head(ts) IN
         IF ~(t \in s.catalog /\ s.tables[t].dirty)
         THEN checkpointTables(Tail(ts), s)
         ELSE LET a == allocatePageRange(s.pm, 1)
                  old == PageRange(s.tables[t].page, 1)
                  log1 == LogAlloc(s.log, a.range)
                  hasOld == s.tables[t].page # INVALID_PAGE_IDX
              IN checkpointTables(Tail(ts),
                   [s EXCEPT !.pm = freeRangeIfValid(a.pm, old),
                             !.tables[t].page = a.range.startPageIdx,
                             !.tables[t].dirty = FALSE,
                             !.disk[a.range.startPageIdx] = dataPage(t, s.tables[t].val),
                             !.log = IF hasOld THEN LogFree(log1, a.pm, old) ELSE log1,
                             !.changed = TRUE])

\* ------------------------------------------------------------- Init
InitMem ==
    /\ header = EmptyHeader
    /\ catalog = {}
    /\ catalogVersion = 0
    /\ tables = [t \in Tables |-> EmptyTable]
    /\ pm = FreshState(0).pm
    /\ shadowMem = EmptyFile
    /\ disk = EmptyFile
    /\ wal = <<>>
    /\ shadowDisk = EmptyFile
    /\ pc = "idle"
    /\ databaseHeader = EmptyHeader
    /\ hasStorageChanges = FALSE
    /\ progress = {}
    /\ preImage = RecoveredImage
    /\ startSnap = Snap
    /\ detected = NoDetect
    /\ ckptLog = EmptyLog
    /\ bootstrap = NoBootstrap
    /\ quiet = [valid |-> FALSE, snap |-> Snap]
    /\ lastOutcome = "none"
    /\ nops = 0 /\ ncrashes = 0 /\ nfailures = 0
    /\ readLog = NoRead
    /\ bm = NoBuffer

\* no background loader is running
InitLoaderIdle ==
    /\ bgPc = "none"
    /\ backgroundThreadStartMutex = "none"
    /\ vectorIndexLoadCancelled = FALSE
    /\ bgIn = NoBgIn
    /\ bgLog = NoBgLog
    /\ hnswPc = "none"
    /\ hnswIn = NoHnswIn
    /\ nextIndexToProcess = 0
    /\ workers = [w \in WorkerIds |-> NoWorker]
    /\ claims = [i \in 0..(MaxIndexes - 1) |-> 0]
    /\ errors = {}
    /\ hnswLog = NoHnswLog

Init ==
    /\ isInMemory \in BOOLEAN
    /\ autoCheckpoint \in BOOLEAN
    /\ InitMem
    /\ acIn = NoAC
    /\ acResult = FALSE
    /\ acCalled = FALSE
    /\ dbIn = NoDbIn
    /\ dbPc = "none"
    /\ dbOut = NoDbOut
    /\ InitLoaderIdle

\* ------------------------------------------------------- transactions
\* entry of writeCheckpoint after the given WAL content is durable
BeginCheckpoint(w) ==
    IF checkpointEntry(isInMemory) = "idle"
    THEN /\ pc' = "idle"
         /\ lastOutcome' = "inmemory"
         /\ UNCHANGED <<locVars, histVars>>
    ELSE /\ pc' = checkpointEntry(isInMemory)
         /\ databaseHeader' = header
         /\ hasStorageChanges' = FALSE
         /\ progress' = {}
         /\ preImage' = LET st == recover(disk, shadowDisk, w)
                        IN LogicalImage(st, PagesOf(st.pm.free))
         /\ startSnap' = [Snap EXCEPT !.wal = w]
         /\ detected' = NoDetect
         /\ ckptLog' = [EmptyLog EXCEPT !.preFree = PagesOf(pm.free),
                                     !.preUnreferenced = Unreferenced]
         /\ bootstrap' = NoBootstrap
         /\ lastOutcome' = "none"

\* commit of a transaction: the WAL record is flushed, then an
\* auto-checkpoint is started when canAutoCheckpoint allows it
Commit(rec) ==
    LET w == IF isInMemory THEN wal ELSE Append(wal, rec)
    IN /\ wal' = w
       /\ nops' = nops + 1
       /\ IF canAutoCheckpoint(isInMemory, autoCheckpoint, FALSE, 1, Len(wal),
                               DefaultThreshold)
          THEN BeginCheckpoint(w)
          ELSE /\ pc' = "idle"
               /\ lastOutcome' = "none"
               /\ UNCHANGED <<locVars, histVars>>

CreateTable(t) ==
    /\ pc = "idle" /\ nops < MaxOps
    /\ t \notin catalog
    /\ quiet' = [quiet EXCEPT !.valid = FALSE]
    /\ catalog' = catalog \cup {t}
    /\ catalogVersion' = 1
    /\ Commit(CreateRecord(t))
    /\ UNCHANGED <<cfgVars, header, tables, pm, shadowMem, disk, shadowDisk,
                   ncrashes, nfailures, acVars, openVars, dbVars, bmVars, bgVars, hnswVars>>

UpdateTable(t) ==
    /\ pc = "idle" /\ nops < MaxOps
    /\ t \in catalog
    /\ quiet' = [quiet EXCEPT !.valid = FALSE]
    /\ tables' = [tables EXCEPT ![t].val = tables[t].val + 1, ![t].dirty = TRUE]
    /\ Commit(UpdateRecord(t))
    /\ UNCHANGED <<cfgVars, header, catalog, catalogVersion, pm, shadowMem, disk,
                   shadowDisk, ncrashes, nfailures, acVars, openVars, dbVars, bmVars, bgVars, hnswVars>>

\* ---------------------------------------------------- writeCheckpoint
WriteCheckpoint ==
    /\ pc = "idle"
    /\ BeginCheckpoint(wal)
    /\ UNCHANGED <<cfgVars, memVars, shadowMem, durVars, quiet, cntVars, acVars, openVars, dbVars, bmVars, bgVars, hnswVars>>

CheckpointStorage ==
    /\ pc = "checkpointStorage"
    /\ LET r == checkpointTables(SortedTables(Tables),
                    [pm |-> pm, tables |-> tables, disk |-> disk, catalog |-> catalog,
                     log |-> ckptLog, changed |-> FALSE])
       IN /\ r.pm.numPages <= MaxPages
          /\ pm' = r.pm
          /\ tables' = r.tables
          /\ disk' = r.disk
          /\ ckptLog' = r.log
          /\ hasStorageChanges' = r.changed
          /\ bm' = bmTouch(bm, r.log.allocated \ ckptLog.allocated)
    /\ pc' = "detect"
    /\ UNCHANGED <<cfgVars, header, catalog, catalogVersion, shadowMem, wal, shadowDisk,
                   databaseHeader, progress, preImage, startSnap, detected, bootstrap,
                   quiet, lastOutcome, cntVars, acVars, openVars, dbVars, bgVars, hnswVars>>

Detect ==
    /\ pc = "detect"
    /\ detected' = [storage |-> hasStorageChanges,
                    catalogChanged |-> catalogVersion # 0,
                    pmChanged |-> pm.version # 0,
                    catalogValid |->
                        databaseHeader.catalogPageRange.startPageIdx # INVALID_PAGE_IDX,
                    metadataValid |->
                        databaseHeader.metadataPageRange.startPageIdx # INVALID_PAGE_IDX]
    /\ IF skipCheckpoint(databaseHeader, hasStorageChanges, catalogVersion # 0,
                         pm.version # 0)
       THEN /\ pc' = "idle"
            /\ lastOutcome' = "skipped"
            /\ quiet' = [valid |-> TRUE, snap |-> Snap]
       ELSE /\ pc' = WriteCheckpointOrder[1]
            /\ UNCHANGED <<lastOutcome, quiet>>
    /\ UNCHANGED <<cfgVars, memVars, shadowMem, durVars, locVars, preImage, startSnap,
                   ckptLog, bootstrap, cntVars, acVars, openVars, dbVars, bmVars, bgVars, hnswVars>>

SerializeCatalog ==
    /\ pc = "serializeCatalog"
    /\ IF shouldSerializeCatalog(databaseHeader, catalogVersion # 0)
       THEN LET toks == catalogSerialize(catalog)
                a == allocatePageRange(pm, getNumPagesToFlush(Len(toks)))
                old == databaseHeader.catalogPageRange
                log1 == LogAlloc(ckptLog, a.range)
            IN /\ a.pm.numPages <= MaxPages
               /\ shadowMem' = flushWriter(shadowMem, a.range, toks)
               /\ pm' = freeRangeIfValid(a.pm, old)
               /\ ckptLog' = IF old.startPageIdx # INVALID_PAGE_IDX
                             THEN LogFree(log1, a.pm, old) ELSE log1
               /\ databaseHeader' = [databaseHeader EXCEPT !.catalogPageRange = a.range]
               /\ bm' = bmTouch(bm, RangePages(a.range))
       ELSE UNCHANGED <<shadowMem, pm, ckptLog, databaseHeader, bm>>
    /\ pc' = StepAfterSerialize("serializeCatalog")
    /\ UNCHANGED <<cfgVars, header, catalog, catalogVersion, tables, durVars,
                   hasStorageChanges, progress, preImage, startSnap, detected, bootstrap,
                   quiet, lastOutcome, cntVars, acVars, openVars, dbVars, bgVars, hnswVars>>

SerializeMetadata ==
    /\ pc = "serializeMetadata"
    /\ IF shouldSerializeMetadata(databaseHeader, hasStorageChanges, catalogVersion # 0,
                                  pm.version # 0)
       THEN LET old == databaseHeader.metadataPageRange
                pm1 == IF freesMetadataFirst THEN freeMetadataPageRange(pm, old) ELSE pm
                log1 == IF old.startPageIdx # INVALID_PAGE_IDX
                        THEN LogFree(ckptLog, pm, old) ELSE ckptLog
                mtoks == storageSerialize(catalog, tables)
                metaPages == getNumPagesToFlush(Len(mtoks))
                pagesForPageManager == estimatePagesNeededForSerialize(pm1)
                a == allocatePageRange(pm1,
                        metadataPagesToAllocate(metaPages, pagesForPageManager))
                ptoks == serializePageManager(pageManagerToSerialize(pm1, a.pm))
                all == mtoks \o ptoks
            IN /\ a.pm.numPages <= MaxPages
               /\ pm' = IF freesMetadataFirst THEN a.pm ELSE freeMetadataPageRange(a.pm, old)
               /\ ckptLog' = LogAlloc(log1, a.range)
               /\ bootstrap' = [metaPages |-> metaPages,
                                estimate |-> pagesForPageManager,
                                needed |-> getNumPagesToFlush(Len(ptoks)),
                                allocated |-> a.range.numPages,
                                written |-> getNumPagesToFlush(Len(all)),
                                range |-> a.range,
                                estimatedOn |-> pm1]
               /\ IF getNumPagesToFlush(Len(all)) <= a.range.numPages
                  THEN /\ shadowMem' = flushWriter(shadowMem, a.range, all)
                       /\ bm' = bmTouch(bm, a.range.startPageIdx ..
                              (a.range.startPageIdx + getNumPagesToFlush(Len(all)) - 1))
                       /\ databaseHeader' =
                              [databaseHeader EXCEPT !.metadataPageRange =
                                  serializeMetadataReturn(a.range,
                                      getNumPagesToFlush(Len(all)))]
                       /\ pc' = StepAfterSerialize("serializeMetadata")
                  ELSE /\ pc' = "fatal"
                       /\ UNCHANGED <<shadowMem, databaseHeader, bm>>
       ELSE /\ pc' = StepAfterSerialize("serializeMetadata")
            /\ UNCHANGED <<shadowMem, pm, ckptLog, databaseHeader, bootstrap, bm>>
    /\ UNCHANGED <<cfgVars, header, catalog, catalogVersion, tables, durVars,
                   hasStorageChanges, progress, preImage, startSnap, detected,
                   quiet, lastOutcome, cntVars, acVars, openVars, dbVars, bgVars, hnswVars>>

WriteDatabaseHeader ==
    /\ pc = "writeDatabaseHeader"
    /\ LET w == writeHeaderPage(disk, shadowMem, serializeHeader(databaseHeader))
       IN disk' = w.disk /\ shadowMem' = w.shadow
    /\ header' = databaseHeader
    /\ LET r == versionsAfterStep("writeDatabaseHeader", catalogVersion, pm)
       IN pm' = r.pm /\ catalogVersion' = r.catalogVersion
    /\ pc' = StepAfterSerialize("writeDatabaseHeader")
    /\ progress' = {}
    /\ UNCHANGED <<cfgVars, catalog, tables, wal, shadowDisk,
                   databaseHeader, hasStorageChanges, histVars, quiet, lastOutcome, cntVars,
                   acVars, openVars, dbVars, bmVars, bgVars, hnswVars>>

\* ShadowFile::flushAll, one staged page at a time
FlushShadowPage ==
    /\ pc = "flushAll"
    /\ Staged(shadowMem) \ progress # {}
    /\ LET p == CHOOSE x \in Staged(shadowMem) \ progress :
                    \A y \in Staged(shadowMem) \ progress : x <= y
       IN /\ shadowDisk' = [shadowDisk EXCEPT ![p] = shadowMem[p]]
          /\ progress' = progress \cup {p}
    /\ UNCHANGED <<cfgVars, memVars, shadowMem, disk, wal, pc, databaseHeader,
                   hasStorageChanges, histVars, quiet, lastOutcome, cntVars, acVars, openVars, dbVars, bmVars, bgVars, hnswVars>>

FlushAllDone ==
    /\ pc = "flushAll"
    /\ Staged(shadowMem) \ progress = {}
    /\ pc' = StepAfter("flushAll")
    /\ progress' = {}
    /\ UNCHANGED <<cfgVars, memVars, shadowMem, durVars, databaseHeader,
                   hasStorageChanges, histVars, quiet, lastOutcome, cntVars, acVars, openVars, dbVars, bmVars, bgVars, hnswVars>>

\* WAL::logAndFlushCheckpoint
LogAndFlushCheckpoint ==
    /\ pc = "logAndFlushCheckpoint"
    /\ wal' = Append(wal, CheckpointRecord)
    /\ pc' = StepAfter("logAndFlushCheckpoint")
    /\ progress' = {}
    /\ UNCHANGED <<cfgVars, memVars, shadowMem, disk, shadowDisk, databaseHeader,
                   hasStorageChanges, histVars, quiet, lastOutcome, cntVars, acVars, openVars, dbVars, bmVars, bgVars, hnswVars>>

\* ShadowFile::applyShadowPages, one staged page at a time; the pages are
\* taken from either end of the staged set, so the header page is applied
\* first in some behaviours and last in others
ApplyShadowPage ==
    /\ pc = "applyShadowPages"
    /\ \E p \in Staged(shadowMem) \ progress :
          /\ \/ \A q \in Staged(shadowMem) \ progress : p <= q
             \/ \A q \in Staged(shadowMem) \ progress : p >= q
          /\ disk' = applyShadowPage(disk, shadowMem, p)
          /\ progress' = progress \cup {p}
    /\ UNCHANGED <<cfgVars, memVars, shadowMem, wal, shadowDisk, pc, databaseHeader,
                   hasStorageChanges, histVars, quiet, lastOutcome, cntVars, acVars, openVars, dbVars, bmVars, bgVars, hnswVars>>

ApplyShadowPagesDone ==
    /\ pc = "applyShadowPages"
    /\ Staged(shadowMem) \ progress = {}
    /\ pc' = StepAfter("applyShadowPages")
    /\ progress' = {}
    /\ UNCHANGED <<cfgVars, memVars, shadowMem, durVars, databaseHeader,
                   hasStorageChanges, histVars, quiet, lastOutcome, cntVars, acVars, openVars, dbVars, bmVars, bgVars, hnswVars>>

WalClear ==
    /\ pc = "walClear"
    /\ wal' = walAfterClear(wal)
    /\ pc' = StepAfter("walClear")
    /\ UNCHANGED <<cfgVars, memVars, shadowMem, disk, shadowDisk, locVars, histVars,
                   quiet, lastOutcome, cntVars, acVars, openVars, dbVars, bmVars, bgVars, hnswVars>>

ShadowClear ==
    /\ pc = "shadowClear"
    /\ shadowMem' = EmptyFile
    /\ shadowDisk' = EmptyFile
    /\ pc' = StepAfter("shadowClear")
    /\ UNCHANGED <<cfgVars, memVars, disk, wal, locVars, histVars, quiet, lastOutcome,
                   cntVars, acVars, openVars, dbVars, bmVars, bgVars, hnswVars>>

\* storageManager->finalizeCheckpoint(), removeEvictedCandidates(),
\* catalog and page manager resetVersion()
FinalizeCheckpoint ==
    /\ pc = "finalizeCheckpoint"
    /\ LET r == versionsAfterStep("finalizeCheckpoint", catalogVersion,
                                  finalizeCheckpoint(pm))
       IN pm' = r.pm /\ catalogVersion' = r.catalogVersion
    /\ bm' = finalizeBuffer(bm, PagesOf(pm.pending))
    /\ pc' = "idle"
    /\ lastOutcome' = "completed"
    /\ UNCHANGED <<cfgVars, header, catalog, tables, shadowMem, durVars, locVars,
                   histVars, cntVars, acVars, openVars, dbVars, bgVars, hnswVars>>
    /\ quiet' = [valid |-> TRUE, snap |-> Snap']

\* ------------------------------------------------ failure and rollback
FailableSteps == {"checkpointStorage", "serializeCatalog", "serializeMetadata",
                  "writeDatabaseHeader", "flushAll", "logAndFlushCheckpoint"}

\* a step of the checkpoint throws before the checkpoint record is logged
StepThrows ==
    /\ pc \in FailableSteps
    /\ ~HasCheckpointRecord(wal)
    /\ nfailures < MaxFailures
    /\ nfailures' = nfailures + 1
    /\ pc' = "failed"
    /\ quiet' = [quiet EXCEPT !.valid = FALSE]
    /\ UNCHANGED <<cfgVars, memVars, shadowMem, durVars, locVars, histVars, lastOutcome,
                   nops, ncrashes, acVars, openVars, dbVars, bmVars, bgVars, hnswVars>>

\* Checkpointer::rollback, called by the transaction manager
Rollback ==
    /\ pc = "failed"
    /\ pm' = rollbackEffect(isInMemory, pm)
    /\ pc' = "idle"
    /\ lastOutcome' = "rolledback"
    /\ quiet' = quiet
    /\ UNCHANGED <<cfgVars, header, catalog, catalogVersion, tables, shadowMem, durVars,
                   locVars, histVars, cntVars, acVars, openVars, dbVars, bmVars, bgVars, hnswVars>>

\* Checkpointer::rollback on an in-memory database
RollbackInMemory ==
    /\ isInMemory
    /\ pc = "idle"
    /\ lastOutcome # "rolledback"
    /\ pm' = rollbackEffect(isInMemory, pm)
    /\ lastOutcome' = "rolledback"
    /\ quiet' = [quiet EXCEPT !.valid = FALSE]
    /\ UNCHANGED <<cfgVars, header, catalog, catalogVersion, tables, shadowMem, durVars,
                   pc, locVars, histVars, cntVars, acVars, openVars, dbVars, bmVars, bgVars, hnswVars>>

\* -------------------------------------------------- crash and reopen
\* the process dies and the database is opened again: the constructors
\* create an empty catalog and storage manager, and StorageManager::recover
\* completes a logged checkpoint from the shadow file
Crash ==
    /\ ~isInMemory
    /\ pc \notin {"corrupt", "fatal"}
    /\ ncrashes < MaxCrashes
    /\ ncrashes' = ncrashes + 1
    /\ LET st == FreshState(0)
       IN /\ header' = st.header
          /\ catalog' = st.catalog
          /\ catalogVersion' = st.catalogVersion
          /\ tables' = st.tables
          /\ pm' = st.pm
          /\ readLog' = st.read
    /\ disk' = recoverDisk(disk, shadowDisk, wal)
    /\ wal' = recoverWal(wal)
    /\ shadowDisk' = EmptyFile
    /\ shadowMem' = EmptyFile
    /\ pc' = "readCheckpoint"
    /\ lastOutcome' = "recovered"
    /\ quiet' = [quiet EXCEPT !.valid = FALSE]
    /\ bm' = NoBuffer
    /\ UNCHANGED <<cfgVars, locVars, histVars, nops, nfailures, acVars, dbVars, bgVars, hnswVars>>

\* Checkpointer::readCheckpoint
ReadCheckpoint ==
    /\ pc = "readCheckpoint"
    /\ LET st == readCheckpointOnOpen(isInMemory, disk)
       IN /\ header' = st.header
          /\ catalog' = st.catalog
          /\ catalogVersion' = st.catalogVersion
          /\ tables' = st.tables
          /\ pm' = st.pm
          /\ readLog' = st.read
          /\ pc' = IF st.corrupt THEN "corrupt" ELSE "replayWal"
    /\ UNCHANGED <<cfgVars, shadowMem, durVars, locVars, histVars, quiet, lastOutcome,
                   cntVars, acVars, dbVars, bmVars, bgVars, hnswVars>>

\* the committed transactions of the WAL are replayed on the checkpoint
ReplayWal ==
    /\ pc = "replayWal"
    /\ LET st == replay(MemState, wal)
       IN /\ header' = st.header
          /\ catalog' = st.catalog
          /\ catalogVersion' = st.catalogVersion
          /\ tables' = st.tables
          /\ pm' = st.pm
    /\ pc' = "idle"
    /\ UNCHANGED <<cfgVars, shadowMem, durVars, locVars, histVars, quiet, lastOutcome,
                   cntVars, acVars, openVars, dbVars, bmVars, bgVars, hnswVars>>

\* an in-memory database is closed and opened again: initMembers returns
\* after initDataFileHandle, StorageManager::recover is not called
ReopenInMemory ==
    /\ isInMemory
    /\ pc = "idle"
    /\ ncrashes < MaxCrashes
    /\ ncrashes' = ncrashes + 1
    /\ LET st == FreshState(0)
       IN /\ header' = st.header
          /\ catalog' = st.catalog
          /\ catalogVersion' = st.catalogVersion
          /\ tables' = st.tables
          /\ pm' = st.pm
          /\ readLog' = st.read
    /\ shadowMem' = EmptyFile
    /\ lastOutcome' = "opened"
    /\ quiet' = [quiet EXCEPT !.valid = FALSE]
    /\ bm' = NoBuffer
    /\ UNCHANGED <<cfgVars, durVars, pc, locVars, histVars, nops, nfailures, acVars,
                   dbVars, bgVars, hnswVars>>

Next ==
    \/ \E t \in Tables : CreateTable(t)
    \/ \E t \in Tables : UpdateTable(t)
    \/ WriteCheckpoint
    \/ CheckpointStorage
    \/ Detect
    \/ SerializeCatalog
    \/ SerializeMetadata
    \/ WriteDatabaseHeader
    \/ FlushShadowPage
    \/ FlushAllDone
    \/ LogAndFlushCheckpoint
    \/ ApplyShadowPage
    \/ ApplyShadowPagesDone
    \/ WalClear
    \/ ShadowClear
    \/ FinalizeCheckpoint
    \/ StepThrows
    \/ Rollback
    \/ RollbackInMemory
    \/ Crash
    \/ ReadCheckpoint
    \/ ReplayWal
    \/ ReopenInMemory

Spec == Init /\ [][Next]_vars

\* ------------------------------------- canAutoCheckpoint on its inputs
InitAC ==
    /\ isInMemory = FALSE
    /\ autoCheckpoint = FALSE
    /\ InitMem
    /\ acIn \in ACInputs
    /\ acResult = FALSE
    /\ acCalled = FALSE
    /\ dbIn = NoDbIn
    /\ dbPc = "none"
    /\ dbOut = NoDbOut
    /\ InitLoaderIdle

CallCanAutoCheckpoint ==
    /\ acResult' = canAutoCheckpoint(acIn.inMemory, acIn.autoCheckpoint, acIn.isRecovery,
                                     acIn.localWALSize, acIn.walFileSize,
                                     acIn.checkpointThreshold)
    /\ acCalled' = TRUE
    /\ acIn' = acIn
    /\ UNCHANGED <<cfgVars, memVars, shadowMem, durVars, pc, locVars, histVars, quiet,
                   lastOutcome, cntVars, openVars, dbVars, bmVars, bgVars, hnswVars>>

NextAC == CallCanAutoCheckpoint

SpecAC == InitAC /\ [][NextAC]_vars

\* ------------------------------------ Database open and close (C API)
\* Database::initMembers: the directory check
checkDirectory(path) == IF path = "directory" THEN "RuntimeException" ELSE "none"

\* variant: a missing path is accepted in read-only mode
validatePathInReadOnly_NoExistenceCheck(readOnly, path) ==
    IF readOnly /\ path = "inMemory" THEN "Exception" ELSE "none"

\* Database::validatePathInReadOnly
validatePathInReadOnly(readOnly, path) ==
    IF readOnly
    THEN IF path = "inMemory" THEN "Exception"
         ELSE IF path = "missing" THEN "Exception"
         ELSE "none"
    ELSE "none"

\* RuntimeException is a subclass of common::Exception
isKuzuException(thrown) == thrown \in {"Exception", "RuntimeException"}

\* Database::~Database: the condition of the checkpoint on close
attemptsCheckpointOnClose(readOnly, forceCheckpointOnClose) ==
    ~readOnly /\ forceCheckpointOnClose

\* variant: only common::Exception is caught
destructorCatches_KuzuExceptionOnly(thrown) == isKuzuException(thrown)

\* Database::~Database: catch (Exception&), catch (std::exception&), catch (...)
destructorCatches(thrown) ==
    \/ isKuzuException(thrown)
    \/ thrown = "std::exception"
    \/ TRUE

protoVars == <<cfgVars, memVars, shadowMem, durVars, pc, locVars, histVars, quiet,
               lastOutcome, cntVars, acVars, openVars, bmVars>>

InitDB ==
    /\ isInMemory = FALSE
    /\ autoCheckpoint = FALSE
    /\ InitMem
    /\ acIn = NoAC
    /\ acResult = FALSE
    /\ acCalled = FALSE
    /\ dbIn \in DbInputs
    /\ dbPc = "checkDirectory"
    /\ dbOut = NoDbOut
    /\ InitLoaderIdle

\* initMembers: a directory path throws before anything is created
DbCheckDirectory ==
    /\ dbPc = "checkDirectory"
    /\ LET thrown == checkDirectory(dbIn.path)
       IN IF thrown # "none"
          THEN /\ dbOut' = [dbOut EXCEPT !.thrown = thrown]
               /\ dbPc' = "catch"
          ELSE /\ dbOut' = dbOut
               /\ dbPc' = "validatePathInReadOnly"
    /\ UNCHANGED <<protoVars, bgVars, hnswVars, dbIn>>

DbValidatePathInReadOnly ==
    /\ dbPc = "validatePathInReadOnly"
    /\ LET thrown == validatePathInReadOnly(dbIn.readOnly, dbIn.path)
       IN IF thrown # "none"
          THEN /\ dbOut' = [dbOut EXCEPT !.thrown = thrown]
               /\ dbPc' = "catch"
          ELSE /\ dbOut' = dbOut
               /\ dbPc' = "initComponents"
    /\ UNCHANGED <<protoVars, bgVars, hnswVars, dbIn>>

\* initMembers: buffer manager, catalog, storage manager, transaction
\* manager are created; an in-memory database returns without recovery
DbInitComponents ==
    /\ dbPc = "initComponents"
    /\ dbOut' = [dbOut EXCEPT !.touched = TRUE]
    /\ dbPc' = IF dbIn.path = "inMemory" THEN "constructed" ELSE "recover"
    /\ UNCHANGED <<protoVars, bgVars, hnswVars, dbIn>>

\* initMembers: StorageManager::recover, which may throw
DbRecover ==
    /\ dbPc = "recover"
    /\ IF dbIn.recoverThrows
       THEN /\ dbOut' = [dbOut EXCEPT !.recovered = TRUE, !.thrown = "Exception"]
            /\ dbPc' = "catch"
       ELSE /\ dbOut' = [dbOut EXCEPT !.recovered = TRUE]
            /\ dbPc' = "constructed"
    /\ UNCHANGED <<protoVars, bgVars, hnswVars, dbIn>>

\* kuzu_database_init: the constructor returned, or threw an Exception
DbInitReturn ==
    /\ dbPc \in {"constructed", "catch"}
    /\ IF dbPc = "constructed"
       THEN /\ dbOut' = [dbOut EXCEPT !.handle = "database", !.state = "KuzuSuccess"]
            /\ dbPc' = "open"
       ELSE IF isKuzuException(dbOut.thrown)
       THEN /\ dbOut' = [dbOut EXCEPT !.handle = "null", !.state = "KuzuError"]
            /\ dbPc' = "failed"
       ELSE /\ dbOut' = [dbOut EXCEPT !.escaped = TRUE]
            /\ dbPc' = "terminated"
    /\ UNCHANGED <<protoVars, bgVars, hnswVars, dbIn>>

\* ~Database: the checkpoint on close inside the try block
DbDestructorCheckpoint ==
    /\ dbPc = "open"
    /\ IF attemptsCheckpointOnClose(dbIn.readOnly, dbIn.forceCheckpointOnClose)
       THEN IF dbIn.checkpointThrows = "none" \/ destructorCatches(dbIn.checkpointThrows)
            THEN /\ dbOut' = [dbOut EXCEPT !.checkpointAttempted = TRUE,
                                           !.thrown = dbIn.checkpointThrows]
                 /\ dbPc' = "setClosed"
            ELSE /\ dbOut' = [dbOut EXCEPT !.checkpointAttempted = TRUE,
                                           !.thrown = dbIn.checkpointThrows,
                                           !.escaped = TRUE]
                 /\ dbPc' = "terminated"
       ELSE /\ dbOut' = dbOut
            /\ dbPc' = "setClosed"
    /\ UNCHANGED <<protoVars, bgVars, hnswVars, dbIn>>

\* ~Database: dbLifeCycleManager->isDatabaseClosed = true
DbDestructorFinish ==
    /\ dbPc = "setClosed"
    /\ dbOut' = [dbOut EXCEPT !.isDatabaseClosed = TRUE]
    /\ dbPc' = "destroyed"
    /\ UNCHANGED <<protoVars, bgVars, hnswVars, dbIn>>

NextDB ==
    \/ DbCheckDirectory
    \/ DbValidatePathInReadOnly
    \/ DbInitComponents
    \/ DbRecover
    \/ DbInitReturn
    \/ DbDestructorCheckpoint
    \/ DbDestructorFinish

SpecDB == InitDB /\ [][NextDB]_vars

\* -------------------------- vector-index background loader and ~Database
\* initHNSWEntries as the loader sees it: it throws when a load failed and
\* the load was not cancelled, and returns otherwise
initHNSWEntriesThrows(loadErrors, cancelled) == ~cancelled /\ loadErrors

\* variant: a cancellation seen after initHNSWEntries does not stop the commit
cancelCheckTarget_CommitAfterLoad(check, cancelled) ==
    IF cancelled /\ check # "cancelCheck3"
    THEN IF check = "cancelCheck1" THEN "exited" ELSE "rollback"
    ELSE IF check = "cancelCheck1" THEN "beginTransaction"
         ELSE IF check = "cancelCheck2" THEN "initHNSWEntries"
         ELSE "commit"

\* where the loader goes from each load of vectorIndexLoadCancelled
cancelCheckTarget(check, cancelled) ==
    IF cancelled
    THEN IF check = "cancelCheck1" THEN "exited" ELSE "rollback"
    ELSE IF check = "cancelCheck1" THEN "beginTransaction"
         ELSE IF check = "cancelCheck2" THEN "initHNSWEntries"
         ELSE "commit"

loaderVars == <<bgPc, backgroundThreadStartMutex, bgIn, bgLog>>

\* the database is open, the loader thread has been started and detached
InitBG ==
    /\ isInMemory = FALSE
    /\ autoCheckpoint = FALSE
    /\ InitMem
    /\ acIn = NoAC
    /\ acResult = FALSE
    /\ acCalled = FALSE
    /\ dbIn \in {d \in DbInputs : d.path \in {"inMemory", "file"} /\ ~d.readOnly
                                   /\ ~d.recoverThrows}
    /\ dbPc = "open"
    /\ dbOut = [NoDbOut EXCEPT !.state = "KuzuSuccess", !.handle = "database",
                               !.touched = TRUE]
    /\ bgPc = "start"
    /\ backgroundThreadStartMutex = "none"
    /\ vectorIndexLoadCancelled = FALSE
    /\ bgIn \in BgInputs
    /\ bgLog = NoBgLog
    /\ hnswPc = "none"
    /\ hnswIn = NoHnswIn
    /\ nextIndexToProcess = 0
    /\ workers = [w \in WorkerIds |-> NoWorker]
    /\ claims = [i \in 0..(MaxIndexes - 1) |-> 0]
    /\ errors = {}
    /\ hnswLog = NoHnswLog

\* std::lock_guard lock(database->backgroundThreadStartMutex)
LoaderLock ==
    /\ bgPc = "start"
    /\ backgroundThreadStartMutex = "none"
    /\ backgroundThreadStartMutex' = "loader"
    /\ bgPc' = "checkClosed"
    /\ UNCHANGED <<protoVars, dbVars, hnswVars, vectorIndexLoadCancelled, bgIn, bgLog>>

\* if (lifeCycleManager->isDatabaseClosed) return; the guard is released
LoaderCheckClosed ==
    /\ bgPc = "checkClosed"
    /\ IF dbOut.isDatabaseClosed
       THEN /\ backgroundThreadStartMutex' = "none"
            /\ bgPc' = "exited"
       ELSE /\ backgroundThreadStartMutex' = backgroundThreadStartMutex
            /\ bgPc' = "createContext"
    /\ UNCHANGED <<protoVars, dbVars, hnswVars, vectorIndexLoadCancelled, bgIn, bgLog>>

\* bgContextPtr = new main::ClientContext(database)
LoaderCreateContext ==
    /\ bgPc = "createContext"
    /\ bgLog' = [bgLog EXCEPT !.contextCreated = TRUE,
                              !.createdAfterClose = dbOut.isDatabaseClosed]
    /\ bgPc' = "unlock"
    /\ UNCHANGED <<protoVars, dbVars, hnswVars, backgroundThreadStartMutex,
                   vectorIndexLoadCancelled, bgIn>>

\* the scope of the lock_guard ends
LoaderUnlock ==
    /\ bgPc = "unlock"
    /\ backgroundThreadStartMutex' = "none"
    /\ bgPc' = "cancelCheck1"
    /\ UNCHANGED <<protoVars, dbVars, hnswVars, vectorIndexLoadCancelled, bgIn, bgLog>>

\* the three loads of vectorIndexLoadCancelled: before the transaction
\* (return), after beginTransaction and after initHNSWEntries (rollback)
LoaderCancelCheck ==
    /\ bgPc \in {"cancelCheck1", "cancelCheck2", "cancelCheck3"}
    /\ bgLog' = IF vectorIndexLoadCancelled THEN [bgLog EXCEPT !.cancelSeen = TRUE]
                ELSE bgLog
    /\ bgPc' = cancelCheckTarget(bgPc, vectorIndexLoadCancelled)
    /\ UNCHANGED <<protoVars, dbVars, hnswVars, backgroundThreadStartMutex,
                   vectorIndexLoadCancelled, bgIn>>

\* getTransactionManager()->beginTransaction(*bgContext, READ_ONLY)
LoaderBeginTransaction ==
    /\ bgPc = "beginTransaction"
    /\ bgLog' = [bgLog EXCEPT !.txn = "active"]
    /\ bgPc' = "cancelCheck2"
    /\ UNCHANGED <<protoVars, dbVars, hnswVars, backgroundThreadStartMutex,
                   vectorIndexLoadCancelled, bgIn>>

\* initHNSWEntries(bgContext.get())
LoaderInitHNSWEntries ==
    /\ bgPc = "initHNSWEntries"
    /\ bgPc' = IF initHNSWEntriesThrows(bgIn.loadErrors, vectorIndexLoadCancelled)
               THEN "catch" ELSE "cancelCheck3"
    /\ UNCHANGED <<protoVars, dbVars, hnswVars, backgroundThreadStartMutex,
                   vectorIndexLoadCancelled, bgIn, bgLog>>

\* getTransactionManager()->rollback(*bgContext, txn); return
LoaderRollback ==
    /\ bgPc = "rollback"
    /\ IF bgIn.rollbackThrows
       THEN /\ bgLog' = [bgLog EXCEPT !.txn = "rollbackThrew"]
            /\ bgPc' = "catch"
       ELSE /\ bgLog' = [bgLog EXCEPT !.txn = "rolledback"]
            /\ bgPc' = "exited"
    /\ UNCHANGED <<protoVars, dbVars, hnswVars, backgroundThreadStartMutex,
                   vectorIndexLoadCancelled, bgIn>>

\* getTransactionManager()->commit(*bgContext, txn)
LoaderCommit ==
    /\ bgPc = "commit"
    /\ IF bgIn.commitThrows
       THEN /\ bgLog' = bgLog
            /\ bgPc' = "catch"
       ELSE /\ bgLog' = [bgLog EXCEPT !.txn = "committed", !.committed = TRUE]
            /\ bgPc' = "notifySuccess"
    /\ UNCHANGED <<protoVars, dbVars, hnswVars, backgroundThreadStartMutex,
                   vectorIndexLoadCancelled, bgIn>>

\* database->notifyVectorIndexLoadComplete(true)
LoaderNotifySuccess ==
    /\ bgPc = "notifySuccess"
    /\ bgLog' = [bgLog EXCEPT !.notified = "success"]
    /\ bgPc' = "exited"
    /\ UNCHANGED <<protoVars, dbVars, hnswVars, backgroundThreadStartMutex,
                   vectorIndexLoadCancelled, bgIn>>

\* catch (const std::exception&) and catch (...):
\* notifyVectorIndexLoadComplete(false, ...)
LoaderCatch ==
    /\ bgPc = "catch"
    /\ bgLog' = [bgLog EXCEPT !.notified = "failure"]
    /\ bgPc' = "exited"
    /\ UNCHANGED <<protoVars, dbVars, hnswVars, backgroundThreadStartMutex,
                   vectorIndexLoadCancelled, bgIn>>

\* the cancellation flag is set by the owner of the database at any time
CancelVectorIndexLoad ==
    /\ bgPc # "none" \/ hnswPc # "none"
    /\ ~vectorIndexLoadCancelled
    /\ vectorIndexLoadCancelled' = TRUE
    /\ UNCHANGED <<protoVars, dbVars, hnswVars, loaderVars>>

NextBG ==
    \/ LoaderLock
    \/ LoaderCheckClosed
    \/ LoaderCreateContext
    \/ LoaderUnlock
    \/ LoaderCancelCheck
    \/ LoaderBeginTransaction
    \/ LoaderInitHNSWEntries
    \/ LoaderRollback
    \/ LoaderCommit
    \/ LoaderNotifySuccess
    \/ LoaderCatch
    \/ CancelVectorIndexLoad
    \/ DbDestructorCheckpoint
    \/ DbDestructorFinish

SpecBG == InitBG /\ [][NextBG]_vars

\* the steps of the detached loader thread; the thread is scheduled until
\* it exits
LoaderNext ==
    \/ LoaderLock
    \/ LoaderCheckClosed
    \/ LoaderCreateContext
    \/ LoaderUnlock
    \/ LoaderCancelCheck
    \/ LoaderBeginTransaction
    \/ LoaderInitHNSWEntries
    \/ LoaderRollback
    \/ LoaderCommit
    \/ LoaderNotifySuccess
    \/ LoaderCatch

SpecBGLive == InitBG /\ [][NextBG]_vars /\ WF_vars(LoaderNext)

\* ------------------------------------ initHNSWEntries and its workers
\* numThreads = std::min(maxNumThreads, hnswIndexes.size())
numThreads(maxNumThreads, size) == IF maxNumThreads < size THEN maxNumThreads ELSE size

\* nextIndexToProcess.fetch_add(1): the value read and the value stored
fetchAdd(counter) == [idx |-> counter, next |-> counter + 1]

\* variant: initHNSWEntries goes on without joining the workers
allJoined_NoWait(ws, n) == TRUE

\* for (auto& worker : workers) worker.join()
allJoined(ws, n) == \A w \in 1..n : ws[w].pc = "done"

Spawned == numThreads(hnswIn.maxNumThreads, hnswIn.numIndexes)

InitHNSW ==
    /\ isInMemory = FALSE
    /\ autoCheckpoint = FALSE
    /\ InitMem
    /\ acIn = NoAC
    /\ acResult = FALSE
    /\ acCalled = FALSE
    /\ dbIn = NoDbIn
    /\ dbPc = "none"
    /\ dbOut = NoDbOut
    /\ bgPc = "none"
    /\ backgroundThreadStartMutex = "none"
    /\ vectorIndexLoadCancelled = FALSE
    /\ bgIn = NoBgIn
    /\ bgLog = NoBgLog
    /\ hnswPc = "collect"
    /\ hnswIn \in {i \in HnswInputs : i.failing \subseteq 0..(i.numIndexes - 1)}
    /\ nextIndexToProcess = 0
    /\ workers = [w \in WorkerIds |-> NoWorker]
    /\ claims = [i \in 0..(MaxIndexes - 1) |-> 0]
    /\ errors = {}
    /\ hnswLog = NoHnswLog

\* the collection loop: a cancellation seen while an entry is examined
\* returns; an empty collection returns
HnswCollect ==
    /\ hnswPc = "collect"
    /\ IF hnswIn.numIndexes > 0 /\ vectorIndexLoadCancelled
       THEN /\ hnswPc' = "returned"
            /\ hnswLog' = hnswLog
       ELSE /\ hnswPc' = IF hnswIn.numIndexes = 0 THEN "returned" ELSE "spawn"
            /\ hnswLog' = [hnswLog EXCEPT !.collected = hnswIn.numIndexes > 0]
    /\ UNCHANGED <<protoVars, dbVars, bgVars, hnswIn, nextIndexToProcess, workers,
                   claims, errors>>

\* workers.emplace_back(...): the threads are created one after another
HnswSpawn ==
    /\ hnswPc = "spawn"
    /\ LET started == {w \in WorkerIds : workers[w].pc # "unborn"}
           w == Cardinality(started) + 1
       IN IF w <= Spawned
          THEN /\ workers' = [workers EXCEPT ![w].pc = "loopStart"]
               /\ hnswPc' = hnswPc
          ELSE /\ workers' = workers
               /\ hnswPc' = "join"
    /\ UNCHANGED <<protoVars, dbVars, bgVars, hnswIn, nextIndexToProcess, claims,
                   errors, hnswLog>>

\* worker: the cancellation check at the start of the loop
WorkerLoopStart(w) ==
    /\ workers[w].pc = "loopStart"
    /\ workers' = [workers EXCEPT ![w].pc =
                      IF vectorIndexLoadCancelled THEN "done" ELSE "fetchAdd"]
    /\ UNCHANGED <<protoVars, dbVars, bgVars, hnswPc, hnswIn, nextIndexToProcess,
                   claims, errors, hnswLog>>

\* worker: idx = nextIndexToProcess.fetch_add(1); leave when idx is past
\* the last index
WorkerFetchAdd(w) ==
    /\ workers[w].pc = "fetchAdd"
    /\ LET r == fetchAdd(nextIndexToProcess)
       IN /\ nextIndexToProcess' = r.next
          /\ IF r.idx >= hnswIn.numIndexes
             THEN /\ workers' = [workers EXCEPT ![w].pc = "done"]
                  /\ claims' = claims
             ELSE /\ workers' = [workers EXCEPT ![w] = [pc |-> "checkBeforeLoad",
                                                       idx |-> r.idx]]
                  /\ claims' = [claims EXCEPT ![r.idx] = claims[r.idx] + 1]
    /\ UNCHANGED <<protoVars, dbVars, bgVars, hnswPc, hnswIn, errors, hnswLog>>

\* worker: the cancellation check before loading
WorkerCheckBeforeLoad(w) ==
    /\ workers[w].pc = "checkBeforeLoad"
    /\ workers' = [workers EXCEPT ![w].pc =
                      IF vectorIndexLoadCancelled THEN "done" ELSE "load"]
    /\ UNCHANGED <<protoVars, dbVars, bgVars, hnswPc, hnswIn, nextIndexToProcess,
                   claims, errors, hnswLog>>

\* worker: the cancellation check before indexHolder.load, the load, and
\* the catch of std::exception that records the error under errorMutex
WorkerLoad(w) ==
    /\ workers[w].pc = "load"
    /\ IF vectorIndexLoadCancelled
       THEN /\ workers' = [workers EXCEPT ![w].pc = "done"]
            /\ UNCHANGED <<errors, hnswLog>>
       ELSE /\ workers' = [workers EXCEPT ![w].pc = "loopStart"]
            /\ IF workers[w].idx \in hnswIn.failing
               THEN /\ errors' = errors \cup {workers[w].idx}
                    /\ hnswLog' = hnswLog
               ELSE /\ errors' = errors
                    /\ hnswLog' = [hnswLog EXCEPT !.loaded = @ \cup {workers[w].idx}]
    /\ UNCHANGED <<protoVars, dbVars, bgVars, hnswPc, hnswIn, nextIndexToProcess,
                   claims>>

\* the join loop has returned for every worker
HnswJoin ==
    /\ hnswPc = "join"
    /\ allJoined(workers, Spawned)
    /\ hnswPc' = "checkErrors"
    /\ UNCHANGED <<protoVars, dbVars, bgVars, hnswIn, nextIndexToProcess, workers,
                   claims, errors, hnswLog>>

\* errors are thrown as one RuntimeException unless the load was cancelled
HnswCheckErrors ==
    /\ hnswPc = "checkErrors"
    /\ IF ~vectorIndexLoadCancelled /\ errors # {}
       THEN /\ hnswPc' = "threw"
            /\ hnswLog' = [hnswLog EXCEPT !.exceptions = @ + 1]
       ELSE /\ hnswPc' = "returned"
            /\ hnswLog' = [hnswLog EXCEPT !.cancelledAtCheck = vectorIndexLoadCancelled]
    /\ UNCHANGED <<protoVars, dbVars, bgVars, hnswIn, nextIndexToProcess, workers,
                   claims, errors>>

NextHNSW ==
    \/ HnswCollect
    \/ HnswSpawn
    \/ \E w \in WorkerIds : WorkerLoopStart(w)
    \/ \E w \in WorkerIds : WorkerFetchAdd(w)
    \/ \E w \in WorkerIds : WorkerCheckBeforeLoad(w)
    \/ \E w \in WorkerIds : WorkerLoad(w)
    \/ HnswJoin
    \/ HnswCheckErrors
    \/ CancelVectorIndexLoad

SpecHNSW == InitHNSW /\ [][NextHNSW]_vars

\* ================================================================ claims
PreLogSteps == {"checkpointStorage", "detect", "serializeCatalog", "serializeMetadata",
                "writeDatabaseHeader", "flushAll", "logAndFlushCheckpoint"}

\* C1: at every point of writeCheckpoint at which the checkpoint record is
\* not yet in the WAL, a crash and reopen recovers exactly the header,
\* catalog, table contents and free pages that were recoverable when the
\* checkpoint started.
C1_CrashBeforeLogRecoversPreState ==
    (pc \in PreLogSteps /\ ~HasCheckpointRecord(wal))
        => RecoveredImage = preImage

C1_Witness ==
    /\ pc = "logAndFlushCheckpoint"
    /\ ~HasCheckpointRecord(wal)
    /\ disk # startSnap.disk
    /\ Cardinality(Staged(shadowDisk)) >= 3
    /\ preImage.catalog # {}
    /\ MemImage # preImage

\* C2: once the checkpoint record is durable, a crash at any point until
\* the shadow pages are all applied recovers the post-checkpoint state: the
\* new header with the new catalog and metadata ranges.
C2_CrashAfterLogRecoversPostState ==
    HasCheckpointRecord(wal) =>
        /\ RecoveredImage = MemImage
        /\ RecoveredState.header = databaseHeader

C2_Witness ==
    /\ HasCheckpointRecord(wal)
    /\ pc = "applyShadowPages"
    /\ DB_HEADER_PAGE_IDX \in progress
    /\ Staged(shadowMem) \ progress # {}
    /\ readCheckpoint(disk).corrupt
    /\ MemImage # preImage

\* C3: after applyShadowPages has completed, at every later point of
\* writeCheckpoint a crash recovers the post-checkpoint state.
C3_CrashAfterApplyRecoversPostState ==
    pc \in {"walClear", "shadowClear", "finalizeCheckpoint"} =>
        /\ RecoveredImage = MemImage
        /\ RecoveredState.header = databaseHeader

C3_Witness ==
    /\ pc = "shadowClear"
    /\ wal = <<>>
    /\ Staged(shadowDisk) # {}
    /\ MemImage # preImage
    /\ MemImage.catalog # {}

\* C4: a writeCheckpoint called right after another one returned, with no
\* transaction, failure or crash in between, writes no page and leaves the
\* data file, the header, the WAL and the shadow file as the first call
\* left them.
C4_SecondCheckpointWritesNothing ==
    (quiet.valid /\ ~isInMemory) =>
        /\ pc \in {"idle", "checkpointStorage", "detect"}
        /\ Snap = quiet.snap
        /\ (pc = "idle" /\ lastOutcome # "completed" => lastOutcome = "skipped")

C4_Witness ==
    /\ quiet.valid
    /\ pc = "idle"
    /\ lastOutcome = "skipped"
    /\ catalog # {}
    /\ header.catalogPageRange.startPageIdx # INVALID_PAGE_IDX
    /\ disk[DB_HEADER_PAGE_IDX] = serializeHeader(header)

\* C5: the step that follows change detection returns without any effect
\* exactly when storage, catalog and page allocator are unchanged and both
\* header ranges are valid; otherwise it enters the serialization sequence.
AllUnchangedAndValid ==
    /\ ~hasStorageChanges
    /\ catalogVersion = 0
    /\ pm.version = 0
    /\ databaseHeader.catalogPageRange.startPageIdx # INVALID_PAGE_IDX
    /\ databaseHeader.metadataPageRange.startPageIdx # INVALID_PAGE_IDX

C5_SkipExactlyWhenNothingChanged ==
    [][(pc = "detect" /\ pc' # "detect" /\ pc' # "failed" /\ lastOutcome' # "recovered") =>
          IF AllUnchangedAndValid
          THEN /\ pc' = "idle"
               /\ lastOutcome' = "skipped"
               /\ Snap' = startSnap
               /\ ckptLog.allocated = {}
               /\ ~HasCheckpointRecord(wal')
          ELSE pc' = "serializeCatalog"]_vars

C5_Witness ==
    /\ pc = "idle"
    /\ lastOutcome = "skipped"
    /\ detected.catalogValid /\ detected.metadataValid
    /\ catalog # {}
    /\ Snap = startSnap

C7_EstimateCoversAllocator ==
    /\ bootstrap.estimate >= bootstrap.needed
    /\ bootstrap.written <= bootstrap.allocated
    /\ bootstrap.allocated = bootstrap.metaPages + bootstrap.estimate
    /\ pc # "fatal"

C7_Witness ==
    /\ pc = "writeDatabaseHeader"
    /\ bootstrap.allocated > bootstrap.written
    /\ bootstrap.metaPages >= 2
    /\ bootstrap.estimate >= 2

\* C8: after a completed checkpoint, reopening recovers the checkpointed
\* catalog and table contents, the header the checkpoint wrote, and a free
\* set equal to the free set before the checkpoint, minus the pages the
\* checkpoint allocated, plus the pages it freed.
C8_RoundTrip ==
    (pc = "idle" /\ lastOutcome = "completed") =>
        /\ ~RecoveredState.corrupt
        /\ RecoveredState.catalog = catalog
        /\ RecoveredImage.vals = MemImage.vals
        /\ RecoveredImage.pages = MemImage.pages
        /\ RecoveredState.header = header
        /\ header = databaseHeader
        /\ RecoveredImage.free = (ckptLog.preFree \ ckptLog.allocated) \cup ckptLog.freed
        /\ RecoveredImage.free = View(pm).free

C8_Witness ==
    /\ pc = "idle"
    /\ lastOutcome = "completed"
    /\ catalog = Tables
    /\ ckptLog.preFree # {}
    /\ ckptLog.preFree \cap ckptLog.allocated # {}
    /\ ckptLog.freed # {}

\* C9: for a durable database with auto-checkpoint enabled and a
\* non-recovery transaction, canAutoCheckpoint is true exactly when the
\* local WAL size plus the WAL file size exceeds the threshold.
C9_ThresholdStrict ==
    (acCalled /\ ~acIn.inMemory /\ acIn.autoCheckpoint /\ ~acIn.isRecovery) =>
        (acResult <=> acIn.localWALSize + acIn.walFileSize > acIn.checkpointThreshold)

C9_Witness ==
    /\ acCalled /\ ~acIn.inMemory /\ acIn.autoCheckpoint /\ ~acIn.isRecovery
    /\ acIn.checkpointThreshold > 0
    /\ acIn.localWALSize + acIn.walFileSize = acIn.checkpointThreshold
    /\ acResult = FALSE

\* C10: canAutoCheckpoint is false for an in-memory database, with
\* auto-checkpoint disabled, or for a recovery transaction, whatever the
\* sizes and the threshold.
C10_NeverForInMemoryDisabledRecovery ==
    (acCalled /\ (acIn.inMemory \/ ~acIn.autoCheckpoint \/ acIn.isRecovery)) =>
        acResult = FALSE

C10_Witness ==
    /\ acCalled /\ acIn.isRecovery /\ ~acIn.inMemory /\ acIn.autoCheckpoint
    /\ acIn.localWALSize + acIn.walFileSize > acIn.checkpointThreshold
    /\ acResult = FALSE

\* the protocol steps in the order the design prescribes
ProtocolOrder ==
    <<"checkpointStorage", "detect", "serializeCatalog", "serializeMetadata",
      "writeDatabaseHeader", "flushAll", "logAndFlushCheckpoint", "applyShadowPages",
      "walClear", "shadowClear", "finalizeCheckpoint", "idle">>
ProtocolSteps == {ProtocolOrder[k] : k \in 1..(Len(ProtocolOrder) - 1)}
ProtocolSuccessor(step) ==
    ProtocolOrder[1 + CHOOSE k \in 1..(Len(ProtocolOrder) - 1) : ProtocolOrder[k] = step]

\* C11: a writeCheckpoint on a durable database moves through storage
\* flush, change detection, catalog, metadata, header, shadow flush,
\* checkpoint record, shadow apply, WAL clear, shadow clear and finalize in
\* exactly this order; the only other moves are the skip after change
\* detection and a throw, after which no step runs and nothing durable
\* changes until rollback returns to idle. Only a full traversal completes.
C11_ProtocolOrder ==
    [][(ncrashes' = ncrashes /\ pc \in ProtocolSteps \cup {"idle", "failed"}) =>
          /\ pc' # pc =>
                \/ pc = "idle" /\ pc' = ProtocolOrder[1] /\ ~isInMemory
                \/ pc \in ProtocolSteps /\ pc' = ProtocolSuccessor(pc)
                \/ pc = "detect" /\ pc' = "idle" /\ lastOutcome' = "skipped"
                \/ pc \in ProtocolSteps /\ pc' = "failed"
                \/ pc = "failed" /\ pc' = "idle" /\ lastOutcome' = "rolledback"
          /\ pc = "failed" => UNCHANGED <<disk, wal, shadowDisk, shadowMem, header>>
          /\ (lastOutcome' = "completed" /\ lastOutcome # "completed") =>
                pc = "finalizeCheckpoint"]_vars

C11_Witness ==
    /\ pc = "idle"
    /\ lastOutcome = "completed"
    /\ nfailures > 0
    /\ disk[DB_HEADER_PAGE_IDX] = serializeHeader(header)

\* C12: from the start of writeCheckpoint until applyShadowPages runs, page
\* 0 of the data file is what it was when the checkpoint started; once
\* writeDatabaseHeader has run, the new header is in the shadow copy of
\* page 0 and is the in-memory header.
C12_HeaderPageUntouchedUntilApply ==
    /\ pc \in PreLogSteps \cup {"failed"} =>
          disk[DB_HEADER_PAGE_IDX] = startSnap.disk[DB_HEADER_PAGE_IDX]
    /\ (pc = "applyShadowPages" /\ DB_HEADER_PAGE_IDX \notin progress) =>
          disk[DB_HEADER_PAGE_IDX] = startSnap.disk[DB_HEADER_PAGE_IDX]
    /\ pc \in {"flushAll", "logAndFlushCheckpoint", "applyShadowPages"} =>
          /\ shadowMem[DB_HEADER_PAGE_IDX] = serializeHeader(databaseHeader)
          /\ header = databaseHeader

C12_Witness ==
    /\ pc = "applyShadowPages"
    /\ DB_HEADER_PAGE_IDX \notin progress
    /\ progress # {}
    /\ disk[DB_HEADER_PAGE_IDX] # <<>>
    /\ shadowMem[DB_HEADER_PAGE_IDX] # disk[DB_HEADER_PAGE_IDX]
    /\ header # deserializeHeader(disk)

\* C13: the checkpoint record is appended only when every staged page is
\* in the durable shadow file; a staged page is copied onto the data file
\* only when the record is in the WAL; the WAL is cleared only when every
\* staged page has been applied; the shadow file is cleared only when the
\* WAL is empty.
C13_LogApplyClearOrder ==
    [][ncrashes' = ncrashes =>
          /\ (HasCheckpointRecord(wal') /\ ~HasCheckpointRecord(wal)) =>
                /\ Staged(shadowMem) # {}
                /\ \A p \in Staged(shadowMem) : shadowDisk[p] = shadowMem[p]
          /\ (\E p \in Staged(shadowMem) : disk'[p] # disk[p]) =>
                HasCheckpointRecord(wal)
          /\ (wal # <<>> /\ wal' = <<>>) =>
                /\ Staged(shadowMem) # {}
                /\ \A p \in Staged(shadowMem) : disk[p] = shadowMem[p]
          /\ (Staged(shadowMem) # {} /\ Staged(shadowMem') = {}) =>
                /\ wal = <<>>
                /\ Staged(shadowDisk') = {}]_vars

C13_Witness ==
    /\ pc = "finalizeCheckpoint"
    /\ wal = <<>>
    /\ Staged(shadowMem) = {}
    /\ Staged(shadowDisk) = {}
    /\ disk[DB_HEADER_PAGE_IDX] # startSnap.disk[DB_HEADER_PAGE_IDX]
    /\ startSnap.wal # <<>>

\* C14: readCheckpoint on a durable database whose file has at least one
\* page deserializes the header from page 0 and installs it; when its
\* catalog range is invalid, neither catalog nor storage metadata nor page
\* allocator is deserialized. With a file of zero pages, or in memory, no
\* header is read.
C14_ReadCheckpointHeader ==
    /\ pc \in {"replayWal", "corrupt"} =>
          IF FileNumPages(disk) >= 1
          THEN /\ readLog.header
               /\ header = deserializeHeader(disk)
               /\ header.catalogPageRange.startPageIdx = INVALID_PAGE_IDX =>
                     /\ ~readLog.catalog /\ ~readLog.metadata /\ ~readLog.pageManager
                     /\ catalog = {}
                     /\ tables = [t \in Tables |-> EmptyTable]
                     /\ pm.free = {}
               /\ header.catalogPageRange.startPageIdx # INVALID_PAGE_IDX =>
                     (pc = "replayWal" => readLog = AllRead)
          ELSE /\ readLog = NoRead
               /\ header = EmptyHeader
    /\ isInMemory => readLog = NoRead

C14_Witness ==
    /\ pc = "replayWal"
    /\ FileNumPages(disk) >= 1
    /\ header.catalogPageRange.startPageIdx = INVALID_PAGE_IDX
    /\ readLog = HeaderRead
    /\ wal # <<>>

C16_CloseNeverThrows ==
    /\ dbOut.checkpointAttempted =>
          (~dbIn.readOnly /\ dbIn.forceCheckpointOnClose)
    /\ dbPc \in {"setClosed", "destroyed"} =>
          (dbOut.checkpointAttempted <=> (~dbIn.readOnly /\ dbIn.forceCheckpointOnClose))
    /\ dbOut.handle = "database" => ~dbOut.escaped
    /\ dbOut.handle = "database" => dbPc \in {"open", "setClosed", "destroyed"}
    /\ dbPc = "destroyed" <=> dbOut.isDatabaseClosed

C16_Witness ==
    /\ dbPc = "destroyed"
    /\ dbOut.isDatabaseClosed
    /\ dbOut.checkpointAttempted
    /\ dbOut.thrown = "unknown"

DbBadPath ==
    \/ dbIn.path = "directory"
    \/ dbIn.readOnly /\ dbIn.path = "inMemory"
    \/ dbIn.readOnly /\ dbIn.path = "missing"

ArtifactPages(h, cat, tbls) ==
    RangePages(h.catalogPageRange) \cup RangePages(h.metadataPageRange)
        \cup {tbls[t].page : t \in {x \in cat : tbls[x].page # INVALID_PAGE_IDX}}
OnDiskState == readCheckpoint(disk)
OnDiskPages == ArtifactPages(OnDiskState.header, OnDiskState.catalog, OnDiskState.tables)

\* C17: no page freed by a checkpoint is allocated by that checkpoint, a
\* page freed and not yet finalized is not on the free list, and until the
\* shadow pages are applied no page allocated by the checkpoint belongs to
\* the catalog, the metadata or a table the on-disk header leads to; the
\* new catalog range, the new metadata range, the table pages and the
\* header page are pairwise disjoint.
C17_FreedPagesNotReused ==
    /\ ckptLog.allocated \cap ckptLog.freed = {}
    /\ PagesOf(pm.pending) \cap PagesOf(pm.free) = {}
    /\ pc \in PreLogSteps \cup {"failed"} =>
          /\ ~OnDiskState.corrupt
          /\ ckptLog.allocated \cap OnDiskPages = {}
    /\ pc \in ProtocolSteps \cup {"failed"} =>
          /\ RangePages(databaseHeader.catalogPageRange)
                \cap RangePages(databaseHeader.metadataPageRange) = {}
          /\ DB_HEADER_PAGE_IDX \notin ArtifactPages(databaseHeader, catalog, tables)
          /\ \A t \in catalog :
                tables[t].page \notin RangePages(databaseHeader.catalogPageRange)
                                         \cup RangePages(databaseHeader.metadataPageRange)
          /\ \A t1, t2 \in catalog :
                (t1 # t2 /\ tables[t1].page # INVALID_PAGE_IDX) =>
                    tables[t1].page # tables[t2].page

C17_Witness ==
    /\ pc = "logAndFlushCheckpoint"
    /\ pm.pending # {}
    /\ ckptLog.freed # {}
    /\ ckptLog.allocAfterFree # {}
    /\ ckptLog.preFree \cap ckptLog.allocated # {}
    /\ OnDiskPages # {}

\* C18 (as stated): the shadow file holds no staged page when a
\* writeCheckpoint begins and none after one has completed.
C18_ShadowNeverSpansCheckpoints ==
    /\ pc \in {"idle", "checkpointStorage", "detect"} =>
          /\ Staged(shadowMem) = {}
          /\ Staged(shadowDisk) = {}

\* C20: for an in-memory database writeCheckpoint and rollback change
\* nothing: the allocator, the header, the data file, the WAL and the
\* shadow file stay as constructed, no checkpoint step runs, and opening
\* never runs recovery or reads a checkpoint.
C20_InMemoryNoOps ==
    isInMemory =>
        /\ pc = "idle"
        /\ pm = FreshState(0).pm
        /\ header = EmptyHeader
        /\ disk = EmptyFile
        /\ wal = <<>>
        /\ shadowMem = EmptyFile
        /\ shadowDisk = EmptyFile
        /\ lastOutcome \in {"none", "inmemory", "rolledback", "opened"}
        /\ readLog = NoRead

C20_Witness ==
    /\ isInMemory
    /\ lastOutcome = "inmemory"
    /\ ncrashes = 1
    /\ catalog # {}
    /\ \E t \in catalog : tables[t].dirty

\* C21: in a checkpoint that is not skipped, the catalog step stages the
\* catalog in a freshly allocated range and puts that range in the header
\* exactly when the header had no valid catalog range or the catalog
\* changed, and otherwise leaves the header's catalog range, the shadow
\* file and the allocator alone; the metadata step does the same for the
\* metadata range, exactly when the header had no valid metadata range or
\* storage, the catalog or the page allocator changed.
C21_SerializeExactlyWhenChanged ==
    [][/\ (pc = "serializeCatalog" /\ pc' = "serializeMetadata") =>
             IF \/ databaseHeader.catalogPageRange.startPageIdx = INVALID_PAGE_IDX
                \/ catalogVersion # 0
             THEN /\ databaseHeader'.catalogPageRange # databaseHeader.catalogPageRange
                  /\ RangePages(databaseHeader'.catalogPageRange) # {}
                  /\ RangePages(databaseHeader'.catalogPageRange)
                        \subseteq ckptLog'.allocated \ ckptLog.allocated
                  /\ RangePages(databaseHeader'.catalogPageRange)
                        \cap RangePages(databaseHeader.catalogPageRange) = {}
                  /\ LET cs == Stream(shadowMem', databaseHeader'.catalogPageRange.startPageIdx)
                     IN CatalogOk(cs) /\ catalogDeserialize(cs) = catalog
             ELSE /\ databaseHeader'.catalogPageRange = databaseHeader.catalogPageRange
                  /\ UNCHANGED <<shadowMem, pm>>
       /\ (pc = "serializeMetadata" /\ pc' = "writeDatabaseHeader") =>
             IF \/ databaseHeader.metadataPageRange.startPageIdx = INVALID_PAGE_IDX
                \/ hasStorageChanges \/ catalogVersion # 0 \/ pm.version # 0
             THEN /\ databaseHeader'.metadataPageRange # databaseHeader.metadataPageRange
                  /\ RangePages(databaseHeader'.metadataPageRange) # {}
                  /\ RangePages(databaseHeader'.metadataPageRange)
                        \subseteq ckptLog'.allocated \ ckptLog.allocated
                  /\ RangePages(databaseHeader'.metadataPageRange)
                        \cap RangePages(databaseHeader.metadataPageRange) = {}
                  /\ shadowMem'[databaseHeader'.metadataPageRange.startPageIdx] # <<>>
             ELSE /\ databaseHeader'.metadataPageRange = databaseHeader.metadataPageRange
                  /\ UNCHANGED <<shadowMem, pm>>
       /\ (pc \in {"serializeCatalog", "serializeMetadata"} /\ pc' # "failed"
              /\ ncrashes' = ncrashes) =>
             (pc = "serializeCatalog" =>
                 databaseHeader'.metadataPageRange = databaseHeader.metadataPageRange)
             /\ (pc = "serializeMetadata" =>
                 databaseHeader'.catalogPageRange = databaseHeader.catalogPageRange)]_vars

\* a checkpoint kept the catalog range of the header and wrote new metadata
C21_Witness ==
    /\ pc = "writeDatabaseHeader"
    /\ header.catalogPageRange.startPageIdx # INVALID_PAGE_IDX
    /\ databaseHeader.catalogPageRange = header.catalogPageRange
    /\ databaseHeader.metadataPageRange # header.metadataPageRange
    /\ detected.pmChanged /\ ~detected.storage /\ ~detected.catalogChanged

\* the allocator state staged with the metadata of the running checkpoint
StagedPageManager ==
    LET ms == Stream(shadowMem, databaseHeader.metadataPageRange.startPageIdx)
    IN pageManagerDeserialize(SubSeq(ms, StorageLen(ms) + 1, Len(ms)), 0)
PreviousMetadataPages == RangePages(startSnap.header.metadataPageRange)
MetadataReserialized ==
    /\ pc \in {"writeDatabaseHeader", "flushAll", "logAndFlushCheckpoint",
               "applyShadowPages", "walClear", "shadowClear", "finalizeCheckpoint"}
    /\ databaseHeader.metadataPageRange # startSnap.header.metadataPageRange

\* C22: once the metadata has been re-serialized, the pages of the
\* previous metadata range are freed in the allocator and are free in the
\* allocator state staged with the new metadata; from the checkpoint
\* record on, and after the checkpoint, a reopen recovers an allocator in
\* which they are free.
C22_OldMetadataFreedBeforeSerialize ==
    /\ MetadataReserialized =>
          PreviousMetadataPages \subseteq PagesOf(pm.free \cup pm.pending)
    /\ (MetadataReserialized /\ Staged(shadowMem) # {}) =>
          PreviousMetadataPages \subseteq PagesOf(StagedPageManager.free)
    /\ (MetadataReserialized /\ pc \notin PreLogSteps) =>
          PreviousMetadataPages \subseteq RecoveredImage.free
    /\ (pc = "idle" /\ lastOutcome = "completed") =>
          PreviousMetadataPages \subseteq RecoveredImage.free

C22_Witness ==
    /\ pc = "idle"
    /\ lastOutcome = "completed"
    /\ PreviousMetadataPages # {}
    /\ header.metadataPageRange # startSnap.header.metadataPageRange
    /\ PreviousMetadataPages \subseteq RecoveredImage.free
    /\ RecoveredState.catalog # {}

\* C23: when serializeMetadata has run, the header's metadata range is the
\* range it allocated, of exactly metadataPages + estimatedAllocatorPages
\* contiguous pages; the estimate was taken on an allocator in which no
\* page of that range was used; the staged content is the storage
\* metadata followed by the allocator as it is after the allocation, so
\* the pages of the range are used in it; the writer's pages are staged in
\* the shadow file on the first pages of the range and the data file is
\* not written there before the shadow pages are applied.
C23_BootstrapOrder ==
    (MetadataReserialized /\ Staged(shadowMem) # {}) =>
        LET r == databaseHeader.metadataPageRange
            ms == Stream(shadowMem, r.startPageIdx)
            mtoks == storageSerialize(catalog, tables)
            ptoks == serializePageManager(pm)
        IN /\ r = bootstrap.range
           /\ r.numPages = bootstrap.metaPages + bootstrap.estimate
           /\ bootstrap.metaPages = getNumPagesToFlush(Len(mtoks))
           /\ bootstrap.estimate = estimatePagesNeededForSerialize(bootstrap.estimatedOn)
           /\ RangePages(r) \cap View(bootstrap.estimatedOn).used = {}
           /\ RangePages(r) \subseteq View(pm).used
           /\ SubSeq(ms, 1, Len(mtoks)) = mtoks
           /\ SubSeq(ms, Len(mtoks) + 1, Len(mtoks) + Len(ptoks)) = ptoks
           /\ RangePages(r) \cap PagesOf(StagedPageManager.free) = {}
           /\ StagedPageManager.numPages >= r.startPageIdx + r.numPages
           /\ {p \in RangePages(r) : shadowMem[p] # <<>>}
                 = r.startPageIdx .. (r.startPageIdx + bootstrap.written - 1)
           /\ pc \in PreLogSteps =>
                 \A p \in RangePages(r) : disk[p] = startSnap.disk[p]

C23_Witness ==
    /\ pc = "logAndFlushCheckpoint"
    /\ bootstrap.range = databaseHeader.metadataPageRange
    /\ bootstrap.written < bootstrap.allocated
    /\ bootstrap.estimatedOn.pending # {}
    /\ bootstrap.metaPages >= 2

\* C24: at the end of a checkpoint every page freed during it has an
\* evicted frame and no entry in the eviction queue, and no page has more
\* than one entry, also when the checkpoint reused pages that an earlier
\* checkpoint freed.
C24_NoDuplicateEvictionCandidates ==
    (pc = "idle" /\ lastOutcome = "completed") =>
        /\ \A p \in PageIdx : bm.queue[p] <= 1
        /\ \A p \in ckptLog.freed : p \in bm.evicted /\ bm.queue[p] = 0
        /\ \A p \in bm.evicted : bm.queue[p] = 0

C24_Witness ==
    /\ pc = "idle"
    /\ lastOutcome = "completed"
    /\ ckptLog.freed # {}
    /\ \E p \in ckptLog.preFree \cap ckptLog.allocated : bm.queue[p] = 1

\* C25: a version of the catalog or of the page allocator goes back to its
\* baseline only in the last step of a checkpoint, when the shadow pages
\* are applied, the WAL is empty and the shadow file is cleared, and that
\* step resets both; a throw, a rollback and a skipped checkpoint leave
\* both versions as they are.
C25_VersionsResetOnlyOnSuccess ==
    [][ncrashes' = ncrashes =>
          /\ ((catalogVersion # 0 /\ catalogVersion' = 0)
                \/ (pm.version # 0 /\ pm'.version = 0)) =>
                /\ pc = "finalizeCheckpoint" /\ pc' = "idle"
                /\ lastOutcome' = "completed"
                /\ wal = <<>>
                /\ Staged(shadowMem) = {} /\ Staged(shadowDisk) = {}
                /\ disk[DB_HEADER_PAGE_IDX] = serializeHeader(databaseHeader)
          /\ (pc = "finalizeCheckpoint" /\ pc' = "idle") =>
                (catalogVersion' = 0 /\ pm'.version = 0)
          /\ (pc' = "failed" \/ pc = "failed" \/ (pc = "detect" /\ pc' = "idle")) =>
                (catalogVersion' = catalogVersion /\ pm'.version = pm.version)]_vars

\* a checkpoint failed after the header was staged and was rolled back with
\* the catalog and the allocator still marked changed
C25_Witness ==
    /\ pc = "idle"
    /\ lastOutcome = "rolledback"
    /\ header # startSnap.header
    /\ catalogVersion # 0
    /\ pm.version # 0

\* C26 (as stated): the loader never creates its ClientContext on a
\* database whose destructor has already set isDatabaseClosed.
C26_NoContextAfterClose ==
    ~bgLog.createdAfterClose

\* C28: once the loader has seen vectorIndexLoadCancelled set at one of
\* its three checks, it does not commit and does not report success; when
\* it has exited, its transaction was never begun or its rollback was
\* called.
C28_CancelledNeverCommits ==
    bgLog.cancelSeen =>
        /\ ~bgLog.committed
        /\ bgLog.txn # "committed"
        /\ bgLog.notified # "success"
        /\ bgPc \notin {"commit", "notifySuccess", "initHNSWEntries", "beginTransaction"}
        /\ bgPc = "exited" => bgLog.txn \in {"none", "rolledback", "rollbackThrew"}

C28_Witness ==
    /\ bgPc = "exited"
    /\ bgLog.cancelSeen
    /\ bgLog.txn = "rolledback"
    /\ bgIn.loadErrors
    /\ bgLog.notified = "none"

\* C27: no index is claimed twice; when initHNSWEntries has returned or
\* thrown, every worker has been joined; when it ends after the workers
\* ran and the load was never cancelled, every collected index was claimed
\* and was loaded or recorded as an error; it throws at most once, and
\* exactly when a load failed and the cancellation flag was clear when
\* the errors were examined.
C27_ClaimedOnceAndJoined ==
    /\ \A i \in 0..(MaxIndexes - 1) : claims[i] <= 1
    /\ \A i \in 0..(MaxIndexes - 1) : claims[i] > 0 => i < hnswIn.numIndexes
    /\ hnswPc \in {"checkErrors", "returned", "threw"} =>
          \A w \in WorkerIds : workers[w].pc \in {"unborn", "done"}
    /\ (hnswPc \in {"returned", "threw"} /\ ~vectorIndexLoadCancelled) =>
          /\ \A i \in 0..(hnswIn.numIndexes - 1) : claims[i] = 1
          /\ hnswLog.loaded \cup errors = 0..(hnswIn.numIndexes - 1)
    /\ hnswLog.exceptions <= 1
    /\ hnswPc = "threw" <=> hnswLog.exceptions = 1
    /\ hnswPc = "threw" => errors # {}
    /\ (hnswPc = "returned" /\ hnswLog.collected /\ errors # {}) =>
          hnswLog.cancelledAtCheck

C27_Witness ==
    /\ hnswPc = "threw"
    /\ hnswIn.numIndexes = MaxIndexes
    /\ Spawned >= 2
    /\ \A w \in 1..Spawned : workers[w].pc = "done"
    /\ \E w1, w2 \in 1..Spawned : workers[w1].idx # workers[w2].idx
    /\ errors # {} /\ hnswLog.loaded # {}

\* C29: at every header the protocol produces (the in-memory header, the
\* header on disk, the header a recovery would install, and the header
\* handed to writeDatabaseHeader) a valid catalogPageRange comes with a
\* valid metadataPageRange; readCheckpoint, which tests only the catalog's
\* start page, therefore never positions its reader on an invalid
\* metadata page index.
MetadataValidWithCatalog(h) ==
    h.catalogPageRange.startPageIdx # INVALID_PAGE_IDX =>
        /\ h.metadataPageRange.startPageIdx # INVALID_PAGE_IDX
        /\ h.metadataPageRange.startPageIdx \in PageIdx
C29_CatalogValidImpliesMetadataValid ==
    (~isInMemory /\ pc \notin {"corrupt", "fatal"}) =>
        /\ MetadataValidWithCatalog(header)
        /\ MetadataValidWithCatalog(deserializeHeader(disk))
        /\ MetadataValidWithCatalog(deserializeHeader(recoverDisk(disk, shadowDisk, wal)))
        /\ pc \in {"writeDatabaseHeader", "logAndFlushCheckpoint", "applyShadowPages",
                    "shadowClear", "walClear", "finalizeCheckpoint"} =>
              MetadataValidWithCatalog(databaseHeader)
        /\ pc = "readCheckpoint" =>
              LET h == deserializeHeader(disk)
              IN h.catalogPageRange.startPageIdx # INVALID_PAGE_IDX =>
                    h.metadataPageRange.startPageIdx < FileNumPages(disk)

C29_Witness ==
    /\ pc = "replayWal"
    /\ readLog = AllRead
    /\ header.catalogPageRange.startPageIdx # INVALID_PAGE_IDX
    /\ header.metadataPageRange.startPageIdx \in PageIdx
    /\ header.metadataPageRange.startPageIdx # header.catalogPageRange.startPageIdx

\* C30 (as stated): after a writeCheckpoint that failed once
\* writeDatabaseHeader had replaced the in-memory header, and the rollback
\* that followed, the in-memory header equals the header on disk and no
\* page of the failed attempt is staged in the shadow file.
C30_RollbackRestoresHeaderAndShadow ==
    (/\ ~isInMemory
     /\ pc = "idle"
     /\ lastOutcome = "rolledback"
     /\ header # startSnap.header) =>
        /\ header = deserializeHeader(disk)
        /\ header = startSnap.header
        /\ Staged(shadowMem) = {}

\* C31: a completed checkpoint leaves no used page unreferenced that was
\* not unreferenced when it began; the pages of the metadata range that
\* were allocated and not written are at most the allocator's estimate
\* and lie inside the header's metadata range; and after any sequence of
\* completed checkpoints (no failed attempt, no crash) every used page is
\* the header page, in the header's catalog or metadata range, or a
\* table's page.
ExtraPages == bootstrap.allocated - bootstrap.written
C31_ExtraPageDoesNotAccumulate ==
    (~isInMemory /\ pc = "idle" /\ lastOutcome = "completed") =>
        /\ Unreferenced \subseteq ckptLog.preUnreferenced
        /\ LivePages \subseteq UsedPages(pm)
        /\ ExtraPages >= 0 /\ ExtraPages <= bootstrap.estimate
        /\ RangePages(bootstrap.range) = RangePages(header.metadataPageRange)
        /\ (nfailures = 0 /\ ncrashes = 0) => Unreferenced = {}

\* a completed checkpoint that follows an earlier one in a history without
\* failure or crash: ranges of the earlier one are back on the free list
\* and the metadata range ends in a page that was not written
C31_Witness ==
    /\ ~isInMemory /\ pc = "idle" /\ lastOutcome = "completed"
    /\ nfailures = 0 /\ ncrashes = 0
    /\ nops = MaxOps
    /\ ExtraPages > 0
    /\ pm.free # {}
    /\ Unreferenced = {}

\* C33: whenever writeCheckpoint has returned normally on a durable
\* database, by the full sequence or by the skip path, the WAL is empty
\* and canAutoCheckpoint is false for a transaction whose local WAL is
\* empty, whatever the threshold; the commit that follows such a return
\* does not start an auto-checkpoint under the default threshold.
ReturnedNormally(outcome) == outcome \in {"completed", "skipped"}
C32_TransactionEventuallyEnded ==
    (bgLog.txn = "active") ~> (bgLog.txn \in {"committed", "rolledback"})

====
